---- MODULE Spec2Model ----
(***************************************************************************)
(* MindFlow: the node-link layout engine (LayoutService), the canvas       *)
(* culling of Canvas.tsx and the parts of the mind-map store they use.     *)
(*                                                                         *)
(* Lengths are fixed-point numbers: one world unit is Unit steps, so that  *)
(* the halves and the small force increments of the code stay exact or     *)
(* nearly so in integer arithmetic.                                        *)
(*                                                                         *)
(* A position is the record [x, y, r, num, den], which denotes the point   *)
(*    (x + r * cos(2*pi*num/den),  y + r * sin(2*pi*num/den)).             *)
(* A plain {x, y} of the code has r = 0; the circle placements of the code *)
(* (Math.cos(angle) * radius, Math.sin(angle) * radius) keep the radius    *)
(* and the angle, as a fraction num/den of a full turn.                    *)
(***************************************************************************)
EXTENDS Integers, Sequences, FiniteSets, TLC

VARIABLES
    nodes,              \* the node map: a sequence of [id, position] in key order
    connections,        \* the connection list: a sequence of [from, to, type]
    call,               \* the last layout call: [op, options, focus]
    result,             \* its outcome: [threw, positions, iterations]
    relax,              \* the locals of a running forceDirectedLayout
    zoom,               \* store.zoom, a fraction [num, den]
    pan,                \* store.pan, [x, y]
    visibleNodes,       \* Canvas: the memoised visibleNodes (a set of ids)
    visibleConnections, \* Canvas: the memoised visibleConnections (a set of indices)
    probe,              \* Canvas: a point carried between world and screen coordinates
    mounted,            \* the NodeComponent instances: views[id] = [lastOffset, zoom]
    loaded,             \* store.currentMap is not null
    selectedNode,       \* store.selectedNode, by its id
    history,            \* store.lastCommittedMap, commitHistory and the VersionControlService
    gesture             \* Canvas: the pan responder, its closure and lastPanRef

vars == <<nodes, connections, call, result, relax, zoom, pan, visibleNodes, visibleConnections,
          probe, mounted, loaded, selectedNode, history, gesture>>

storeVars == <<loaded, selectedNode, history, gesture>>

canvasVars == <<zoom, pan, visibleNodes, visibleConnections, probe, mounted, storeVars>>

----------------------------------------------------------------------------
(* Values *)

Unit == 100 * 100

Undefined == "undefined"

NodeIds == {"a", "b", "c"}

IdOrder == <<"a", "b", "c">>

ConnectionTypes == {"related", "blocking", "dependency"}

Pos(x, y) == [x |-> x, y |-> y, r |-> 0, num |-> 0, den |-> 1]

OnCircle(cx, cy, radius, num, den) ==
    [x |-> cx, y |-> cy, r |-> radius, num |-> num, den |-> den]

Origin == Pos(0, 0)

NodeIdsOf(ns) == {ns[i].id : i \in 1..Len(ns)}

IdList(ns) == [i \in 1..Len(ns) |-> ns[i].id]

EmptyMapping == [id \in {} |-> Origin]

\* `options.key || fallback`: an options object is the record of the keys the
\* caller supplied; an absent key, and the number 0, are falsy
OrDefault(options, key, fallback) ==
    IF key \in DOMAIN options /\ options[key] # 0 THEN options[key] ELSE fallback

NoOptions == [algorithm |-> Undefined]

NoCall == [op |-> "none", options |-> NoOptions, focus |-> Undefined]

NoResult == [threw |-> FALSE, positions |-> EmptyMapping, iterations |-> 0]

Returned(positions) == [threw |-> FALSE, positions |-> positions, iterations |-> 0]

Threw == [threw |-> TRUE, positions |-> EmptyMapping, iterations |-> 0]

\* no NodeComponent is mounted.  The refs of the node views are read by node
\* drags only: they are recorded in the specifications that have drags, and
\* left out (recorded = FALSE) in the others
NoViews == [id \in {} |-> [lastOffset |-> [x |-> 0, y |-> 0], zoom |-> [num |-> 1, den |-> 1]]]

NoneMounted == [recorded |-> FALSE, views |-> NoViews]

NoneMountedYet == [recorded |-> TRUE, views |-> NoViews]

\* JSON.stringify leaves out a member whose value is undefined
IsUndefinedMember(object, key) == key # "position" /\ object[key] = Undefined

\* the JSON text of a node or a connection, as the value the text denotes
Json(object) ==
    [key \in {k \in DOMAIN object : ~IsUndefinedMember(object, k)} |-> object[key]]

\* JSON.stringify(map): the nodes in key order, the connections in list order
Stringify(map) ==
    [nodes       |-> [i \in 1..Len(map.nodes) |-> Json(map.nodes[i])],
     connections |-> [i \in 1..Len(map.connections) |-> Json(map.connections[i])]]

\* JSON.parse(JSON.stringify(map))
DeepCopy(map) == Stringify(map)

\* lastCommittedMap: null, commitHistory: []; the VersionControlService as
\* constructed: no commits, the head of 'main' is ''; no uuid issued, nothing
\* returned by commitChanges yet and no editing call made
NoHistory ==
    [lastCommittedMap |-> [nodes |-> <<>>, connections |-> <<>>],
     commitHistory |-> <<>>, commits |-> <<>>, head |-> "", uuids |-> 0,
     returned |-> "none", calls |-> 0]

\* loadMap(map) before any commit: lastCommittedMap is a deep copy of the map,
\* commitHistory is getCommitHistory() of the empty main branch
loadMap(map) == [NoHistory EXCEPT !.lastCommittedMap = DeepCopy(map)]

\* no pan gesture yet: lastPanRef = {x: 0, y: 0}; the closure of the responder
\* holds the pan and the selectedNode of the first render of the canvas.
\* start, displacement, initial and total record the pan at the grant, the
\* (dx, dy) of the last move, the pan of the first render and the sum of the
\* displacements of the gestures released.
NoGesture(p, selected) ==
    [closure |-> [pan |-> p, selectedNode |-> selected],
     lastPanRef |-> [x |-> 0, y |-> 0], active |-> FALSE, moves |-> 0,
     start |-> p, displacement |-> [x |-> 0, y |-> 0],
     initial |-> p, total |-> [x |-> 0, y |-> 0]]

\* the store beside the map, as created, with a map loaded.  lastCommittedMap
\* is read by commitChanges, undoLastChange and hasUncommittedChanges only: it
\* is recorded (loadMap) in the specifications that have them.
StoreIdle ==
    /\ loaded = TRUE
    /\ selectedNode = Undefined
    /\ history = NoHistory
    /\ gesture = NoGesture(pan, selectedNode)

----------------------------------------------------------------------------
(* LayoutService.hierarchicalLayout *)

\* BuildGraph as it would be with the in-degree kept as a flag: inDegree[conn.to] = 1
RECURSIVE BuildGraphInDegreeFlag(_, _, _, _)
BuildGraphInDegreeFlag(conns, i, graph, inDegree) ==
    IF i > Len(conns)
    THEN [threw |-> FALSE, graph |-> graph, inDegree |-> inDegree]
    ELSE LET conn == conns[i] IN
         IF conn.type # "dependency"
         THEN BuildGraphInDegreeFlag(conns, i + 1, graph, inDegree)
         ELSE IF conn.from \notin DOMAIN graph
         THEN [threw |-> TRUE, graph |-> graph, inDegree |-> inDegree]
         ELSE BuildGraphInDegreeFlag(conns, i + 1,
                         [graph EXCEPT ![conn.from] = Append(@, conn.to)],
                         [inDegree EXCEPT ![conn.to] = 1])

\* connections.forEach: graph[conn.from].push(conn.to) and the in-degree count.
\* graph has an entry per node; graph[conn.from] of an id that is no node is
\* undefined, and .push on it raises TypeError.
RECURSIVE BuildGraph(_, _, _, _)
BuildGraph(conns, i, graph, inDegree) ==
    IF i > Len(conns)
    THEN [threw |-> FALSE, graph |-> graph, inDegree |-> inDegree]
    ELSE LET conn == conns[i] IN
         IF conn.type # "dependency"
         THEN BuildGraph(conns, i + 1, graph, inDegree)
         ELSE IF conn.from \notin DOMAIN graph
         THEN [threw |-> TRUE, graph |-> graph, inDegree |-> inDegree]
         ELSE BuildGraph(conns, i + 1,
                         [graph EXCEPT ![conn.from] = Append(@, conn.to)],
                         [inDegree EXCEPT ![conn.to] = @ + 1])

\* the targets visited by currentLevel.forEach(node => graph[node.id].forEach(..)), in order
RECURSIVE LevelTargets(_, _, _)
LevelTargets(graph, currentLevel, i) ==
    IF i > Len(currentLevel) THEN <<>>
    ELSE graph[currentLevel[i]] \o LevelTargets(graph, currentLevel, i + 1)

\* DecrementTarget as it would be with the test inDegree[targetId] >= 0
DecrementTargetEager(ids, targetId, state) ==
    LET d == state.inDegree[targetId] - 1 IN
    [inDegree |-> [state.inDegree EXCEPT ![targetId] = d],
     nextLevel |-> IF d >= 0
                   THEN Append(state.nextLevel,
                               IF targetId \in ids THEN targetId ELSE Undefined)
                   ELSE state.nextLevel]

\* inDegree[targetId]--; if it is 0 now, nextLevel.push(nodes.find(n => n.id === targetId)!)
\* (nodes.find gives undefined for an id that is no node)
DecrementTarget(ids, targetId, state) ==
    LET d == state.inDegree[targetId] - 1 IN
    [inDegree |-> [state.inDegree EXCEPT ![targetId] = d],
     nextLevel |-> IF d = 0
                   THEN Append(state.nextLevel,
                               IF targetId \in ids THEN targetId ELSE Undefined)
                   ELSE state.nextLevel]

RECURSIVE RelaxTargets(_, _, _, _)
RelaxTargets(ids, targets, i, state) ==
    IF i > Len(targets) THEN state
    ELSE RelaxTargets(ids, targets, i + 1, DecrementTarget(ids, targets[i], state))

\* while (currentLevel.length > 0) { levels.push(..); ...; currentLevel = nextLevel }
\* Reading node.id of an undefined entry of currentLevel raises TypeError.
RECURSIVE KahnLevels(_, _, _, _, _)
KahnLevels(ids, graph, inDegree, currentLevel, levels) ==
    IF Len(currentLevel) = 0
    THEN [threw |-> FALSE, levels |-> levels]
    ELSE IF \E i \in 1..Len(currentLevel) : currentLevel[i] = Undefined
    THEN [threw |-> TRUE, levels |-> Append(levels, currentLevel)]
    ELSE LET next == RelaxTargets(ids, LevelTargets(graph, currentLevel, 1), 1,
                                  [inDegree |-> inDegree, nextLevel |-> <<>>])
         IN KahnLevels(ids, graph, next.inDegree, next.nextLevel,
                       Append(levels, currentLevel))

\* nodes.filter(node => inDegree[node.id] === 0)
InitialLevel(idList, inDegree) ==
    SelectSeq(idList, LAMBDA id : inDegree[id] = 0)

\* positions[node.id] = {x: startX + nodeIndex * spacing, y: centerY + levelIndex * spacing}
LevelPosition(levelSize, levelIndex, nodeIndex, spacing, centerX, centerY) ==
    LET levelWidth == levelSize * spacing
        startX == centerX - levelWidth \div 2
    IN Pos(startX + nodeIndex * spacing, centerY + levelIndex * spacing)

RECURSIVE PlaceLevel(_, _, _, _, _, _, _)
PlaceLevel(level, levelIndex, i, spacing, centerX, centerY, positions) ==
    IF i > Len(level) THEN positions
    ELSE PlaceLevel(level, levelIndex, i + 1, spacing, centerX, centerY,
                    (level[i] :> LevelPosition(Len(level), levelIndex, i - 1,
                                               spacing, centerX, centerY))
                    @@ positions)

RECURSIVE PlaceLevels(_, _, _, _, _, _)
PlaceLevels(levels, l, spacing, centerX, centerY, positions) ==
    IF l > Len(levels) THEN positions
    ELSE PlaceLevels(levels, l + 1, spacing, centerX, centerY,
                     PlaceLevel(levels[l], l - 1, 1, spacing, centerX, centerY, positions))

\* the first half of hierarchicalLayout: graph, inDegree and the levels
Levels(idList, conns) ==
    LET ids     == {idList[i] : i \in 1..Len(idList)}
        ends    == ids \cup {conns[i].to : i \in 1..Len(conns)}
        built   == BuildGraph(conns, 1, [id \in ids |-> <<>>], [id \in ends |-> 0])
        kahn    == KahnLevels(ids, built.graph, built.inDegree,
                              InitialLevel(idList, built.inDegree), <<>>)
    IN IF built.threw THEN [threw |-> TRUE, levels |-> <<>>] ELSE kahn

hierarchicalLayout(idList, conns, options) ==
    LET spacing == OrDefault(options, "spacing", 200) * Unit
        centerX == OrDefault(options, "centerX", 0) * Unit
        centerY == OrDefault(options, "centerY", 0) * Unit
        kahn    == Levels(idList, conns)
    IN IF kahn.threw
       THEN Threw
       ELSE Returned(PlaceLevels(kahn.levels, 1, spacing, centerX, centerY, EmptyMapping))

----------------------------------------------------------------------------
(* Arithmetic of the fixed-point model *)

\* a / b rounded toward zero (b > 0)
Quot(a, b) == IF a >= 0 THEN a \div b ELSE -((-a) \div b)

Max(a, b) == IF a >= b THEN a ELSE b

RECURSIVE SqrtIter(_, _)
SqrtIter(n, g) ==
    LET h == (g + n \div g) \div 2 IN IF h >= g THEN g ELSE SqrtIter(n, h)

\* floor(Math.sqrt(n))
ISqrt(n) == IF n = 0 THEN 0 ELSE SqrtIter(n, n)

\* the column count as it would be with Math.floor(Math.sqrt(n))
FloorSqrt(n) == ISqrt(n)

\* Math.ceil(Math.sqrt(n))
CeilSqrt(n) == LET s == ISqrt(n) IN IF s * s = n THEN s ELSE s + 1

\* the row count as it would be with Math.floor(a / b)
FloorDiv(a, b) == a \div b

\* Math.ceil(a / b) (a >= 0, b > 0)
CeilDiv(a, b) == (a + b - 1) \div b

\* cos of k/24 of a full turn, times Unit, for k = 0..6
CosTable == <<10000, 9659, 8660, 7071, 5000, 2588, 0>>

Cos24(k) ==
    LET m == k % 24 IN
    IF m <= 6 THEN CosTable[m + 1]
    ELSE IF m <= 12 THEN -CosTable[12 - m + 1]
    ELSE IF m <= 18 THEN -CosTable[m - 12 + 1]
    ELSE CosTable[24 - m + 1]

\* Math.cos((num / den) * 2 * Math.PI) * Unit, for den a divisor of 24
CosTurn(num, den) == Cos24(num * (24 \div den))

\* Math.sin((num / den) * 2 * Math.PI) * Unit
SinTurn(num, den) == Cos24(num * (24 \div den) + 18)

\* length * ratio / Unit, the product split so that it fits the integers
Scaled(length, ratio) ==
    Quot(length, Unit) * ratio + Quot((length % Unit) * ratio, Unit)

\* the point a position denotes, as plain {x, y}
ToXY(p) ==
    IF p.r = 0 THEN Pos(p.x, p.y)
    ELSE Pos(p.x + Scaled(p.r, CosTurn(p.num, p.den)),
             p.y + Scaled(p.r, SinTurn(p.num, p.den)))

----------------------------------------------------------------------------
(* LayoutService.circularLayout and gridLayout *)

circularLayout(idList, options) ==
    LET radius  == OrDefault(options, "spacing", 200) * Unit
        centerX == OrDefault(options, "centerX", 0) * Unit
        centerY == OrDefault(options, "centerY", 0) * Unit
    IN Returned([id \in {idList[i] : i \in 1..Len(idList)} |->
                   LET index == (CHOOSE i \in 1..Len(idList) : idList[i] = id) - 1
                   IN OnCircle(centerX, centerY, radius, index, Len(idList))])

gridLayout(idList, options) ==
    LET spacing == OrDefault(options, "spacing", 150) * Unit
        centerX == OrDefault(options, "centerX", 0) * Unit
        centerY == OrDefault(options, "centerY", 0) * Unit
        cols == CeilSqrt(Len(idList))
        rows == CeilDiv(Len(idList), cols)
        totalWidth  == (cols - 1) * spacing
        totalHeight == (rows - 1) * spacing
        startX == centerX - totalWidth \div 2
        startY == centerY - totalHeight \div 2
    IN Returned([id \in {idList[i] : i \in 1..Len(idList)} |->
                   LET index == (CHOOSE i \in 1..Len(idList) : idList[i] = id) - 1
                       row == index \div cols
                       col == index % cols
                   IN Pos(startX + col * spacing, startY + row * spacing)])

----------------------------------------------------------------------------
(* LayoutService.centerOnNode *)

\* VisitConnection as it would be if only conn.from === nodeId were followed
VisitConnectionForward(ids, nodeId, conn, radius, levelSize, st) ==
    LET nextNodeId ==
            IF conn.from = nodeId /\ conn.to \notin st.visited THEN conn.to
            ELSE Undefined
    IN IF nextNodeId # Undefined /\ nextNodeId \in ids
       THEN [queue     |-> Append(st.queue, nextNodeId),
             enqueued  |-> Append(st.enqueued, nextNodeId),
             visited   |-> st.visited \cup {nextNodeId},
             positions |-> (nextNodeId :> OnCircle(0, 0, radius, Cardinality(st.visited),
                                                   Max(6, levelSize * 2)))
                           @@ st.positions]
       ELSE st

\* one connection of connections.forEach for the dequeued nodeId; st is
\* [queue, enqueued, visited, positions], where enqueued lists every id ever
\* pushed onto the queue, in order
VisitConnection(ids, nodeId, conn, radius, levelSize, st) ==
    LET nextNodeId ==
            IF conn.from = nodeId /\ conn.to \notin st.visited THEN conn.to
            ELSE IF conn.to = nodeId /\ conn.from \notin st.visited THEN conn.from
            ELSE Undefined
    IN IF nextNodeId # Undefined /\ nextNodeId \in ids
       THEN [queue     |-> Append(st.queue, nextNodeId),
             enqueued  |-> Append(st.enqueued, nextNodeId),
             visited   |-> st.visited \cup {nextNodeId},
             positions |-> (nextNodeId :> OnCircle(0, 0, radius, Cardinality(st.visited),
                                                   Max(6, levelSize * 2)))
                           @@ st.positions]
       ELSE st

RECURSIVE VisitConnections(_, _, _, _, _, _, _)
VisitConnections(ids, nodeId, conns, c, radius, levelSize, st) ==
    IF c > Len(conns) THEN st
    ELSE VisitConnections(ids, nodeId, conns, c + 1, radius, levelSize,
                          VisitConnection(ids, nodeId, conns[c], radius, levelSize, st))

\* for (let i = 0; i < levelSize; i++) { const {nodeId} = queue.shift()!; ... }
RECURSIVE ProcessLevel(_, _, _, _, _, _)
ProcessLevel(ids, conns, i, radius, levelSize, st) ==
    IF i >= levelSize THEN st
    ELSE ProcessLevel(ids, conns, i + 1, radius, levelSize,
                      VisitConnections(ids, Head(st.queue), conns, 1, radius, levelSize,
                                       [st EXCEPT !.queue = Tail(st.queue)]))

\* the radius of the circle for the nodes discovered from BFS level `level`,
\* as it would be with level * 150
LevelRadiusFromZero(level) == level * 150 * Unit

\* const radius = (level + 1) * 150
LevelRadius(level) == (level + 1) * 150 * Unit

\* while (queue.length > 0) { levelSize = queue.length; radius = ..; ...; level++ }
RECURSIVE BfsLevels(_, _, _, _)
BfsLevels(ids, conns, level, st) ==
    IF Len(st.queue) = 0 THEN st
    ELSE BfsLevels(ids, conns, level + 1,
                   ProcessLevel(ids, conns, 0, LevelRadius(level), Len(st.queue), st))

\* const queue = [{nodeId: centerNodeId, ..}]; positions[centerNodeId] = {x: 0, y: 0};
\* visited.add(centerNodeId)
BfsStart(centerNodeId) ==
    [queue     |-> <<centerNodeId>>,
     enqueued  |-> <<centerNodeId>>,
     visited   |-> {centerNodeId},
     positions |-> (centerNodeId :> Origin)]

\* centerOnNode as it would be without `if (!centerNode) return {}`
centerOnNodeUnguarded(idList, centerNodeId, conns) ==
    LET ids == {idList[i] : i \in 1..Len(idList)} IN
    Returned(BfsLevels(ids, conns, 0, BfsStart(centerNodeId)).positions)

centerOnNode(idList, centerNodeId, conns) ==
    LET ids == {idList[i] : i \in 1..Len(idList)} IN
    IF centerNodeId \notin ids
    THEN Returned(EmptyMapping)
    ELSE Returned(BfsLevels(ids, conns, 0, BfsStart(centerNodeId)).positions)

----------------------------------------------------------------------------
(* LayoutService.forceDirectedLayout, in fixed-point arithmetic: positions   *)
(* and forces in steps of 1/Unit, distances in hundredths of a unit (the     *)
(* squares of finer distances do not fit 32-bit integers), the              *)
(* attractionForce option in ten-thousandths.                                *)

Centi == 10 * 10

\* nodes.forEach((node, index) => { if (!positions[node.id]) positions[node.id] = .. })
\* positions is the fresh mapping of this call; the node's own position is not read
RECURSIVE SeedPositions(_, _, _)
SeedPositions(idList, i, positions) ==
    IF i > Len(idList) THEN positions
    ELSE SeedPositions(idList, i + 1,
            IF idList[i] \in DOMAIN positions THEN positions
            ELSE (idList[i] :> ToXY(OnCircle(0, 0, 200 * Unit, i - 1, Len(idList))))
                 @@ positions)

\* Math.sqrt(dx * dx + dy * dy) || 1, in hundredths of a unit: only an exact 0
\* is replaced by 1
Distance(dx, dy) ==
    IF dx = 0 /\ dy = 0 THEN Centi
    ELSE ISqrt(Quot(dx, Centi) * Quot(dx, Centi) + Quot(dy, Centi) * Quot(dy, Centi))

\* repulsionForce / (distance * distance), in steps
Repulsion(repulsionForce, distance) ==
    Quot(Quot(repulsionForce * Unit, distance) * Unit, distance)

\* (dx / distance) * repulsion for one other node, as [x, y]
RepulsionFrom(positions, id, other, repulsionForce) ==
    LET dx == positions[other].x - positions[id].x
        dy == positions[other].y - positions[id].y
        distance  == Distance(dx, dy)
        repulsion == Repulsion(repulsionForce, distance)
    IN [x |-> Quot(Quot(dx, Centi) * repulsion, distance),
        y |-> Quot(Quot(dy, Centi) * repulsion, distance)]

\* nodes.forEach(otherNode => { if (node.id === otherNode.id) return; forces[node.id] -= .. })
RECURSIVE RepulsionSum(_, _, _, _, _)
RepulsionSum(positions, idList, id, j, repulsionForce) ==
    IF j > Len(idList) THEN [x |-> 0, y |-> 0]
    ELSE LET rest == RepulsionSum(positions, idList, id, j + 1, repulsionForce) IN
         IF idList[j] = id THEN rest
         ELSE LET f == RepulsionFrom(positions, id, idList[j], repulsionForce)
              IN [x |-> rest.x - f.x, y |-> rest.y - f.y]

\* d * attractionForce, the force being in ten-thousandths: the whole units and
\* the remainder of d are multiplied apart, which keeps the products in 32 bits
TimesForce(d, attractionForce) ==
    LET a == IF d < 0 THEN -d ELSE d
        v == (a \div Unit) * attractionForce + ((a % Unit) * attractionForce) \div Unit
    IN IF d < 0 THEN -v ELSE v

\* dx * attractionForce toward the node `other`
AttractionTo(positions, id, other, attractionForce) ==
    [x |-> TimesForce(positions[other].x - positions[id].x, attractionForce),
     y |-> TimesForce(positions[other].y - positions[id].y, attractionForce)]

\* one connection of connections.forEach: the pull toward connection.to when
\* connection.from is the node, and toward connection.from when connection.to is;
\* nodes.find guards each endpoint
ConnectionPull(positions, id, conn, attractionForce) ==
    LET toward(other) == IF other \in DOMAIN positions
                         THEN AttractionTo(positions, id, other, attractionForce)
                         ELSE [x |-> 0, y |-> 0]
        out == IF conn.from = id THEN toward(conn.to) ELSE [x |-> 0, y |-> 0]
        in  == IF conn.to = id THEN toward(conn.from) ELSE [x |-> 0, y |-> 0]
    IN [x |-> out.x + in.x, y |-> out.y + in.y]

RECURSIVE AttractionSum(_, _, _, _, _)
AttractionSum(positions, conns, id, c, attractionForce) ==
    IF c > Len(conns) THEN [x |-> 0, y |-> 0]
    ELSE LET rest == AttractionSum(positions, conns, id, c + 1, attractionForce)
             f == ConnectionPull(positions, id, conns[c], attractionForce)
         IN [x |-> rest.x + f.x, y |-> rest.y + f.y]

\* one pass of the for loop: all forces from the current positions, then
\* positions[node.id] += forces[node.id] * damping, damping = 0.9
Relax(positions, idList, conns, attractionForce, repulsionForce) ==
    [id \in DOMAIN positions |->
        LET rep == RepulsionSum(positions, idList, id, 1, repulsionForce)
            att == AttractionSum(positions, conns, id, 1, attractionForce)
        IN Pos(positions[id].x + Quot((rep.x + att.x) * 9, 10),
               positions[id].y + Quot((rep.y + att.y) * 9, 10))]

\* the positions after `count` passes of the loop
RECURSIVE RelaxTimes(_, _, _, _, _, _)
RelaxTimes(positions, idList, conns, attractionForce, repulsionForce, count) ==
    IF count = 0 THEN positions
    ELSE RelaxTimes(Relax(positions, idList, conns, attractionForce, repulsionForce),
                    idList, conns, attractionForce, repulsionForce, count - 1)

\* the seeding as it would be with positions[node.id] = node.position
SeededByReference(idList) == {idList[i] : i \in 1..Len(idList)}

\* the ids whose entry of `positions` is the node's own position object, so that
\* positions[node.id].x += .. would write into the node: none, every entry is
\* a new object literal
SeededWithNodeObject(idList) == {}

\* const maxIterations = options.maxIterations || 100
MaxIterationsOf(options) == OrDefault(options, "maxIterations", 100)

\* the locals of a forceDirectedLayout call before its first iteration
Relaxation(idList, options) ==
    [running         |-> TRUE,
     positions       |-> SeedPositions(idList, 1, EmptyMapping),
     shared          |-> SeededWithNodeObject(idList),
     iteration       |-> 0,
     maxIterations   |-> MaxIterationsOf(options),
     attractionForce |-> OrDefault(options, "attractionForce", 100),
     repulsionForce  |-> OrDefault(options, "repulsionForce", 1000)]

NoRelaxation ==
    [running |-> FALSE, positions |-> EmptyMapping, shared |-> {}, iteration |-> 0,
     maxIterations |-> 0,
     attractionForce |-> 0, repulsionForce |-> 0]

----------------------------------------------------------------------------
(* LayoutService.applyLayout: the algorithms that run in one step *)

\* applyLayout as it would be without `if (nodeList.length === 0) return {}`
applyLayoutUnguarded(ns, conns, options) ==
    LET nodeList == IdList(ns) IN
    CASE options.algorithm = "hierarchical" -> hierarchicalLayout(nodeList, conns, options)
      [] options.algorithm = "circular" -> circularLayout(nodeList, options)
      [] options.algorithm = "grid" -> gridLayout(nodeList, options)
      [] OTHER -> Returned(EmptyMapping)

applyLayout(ns, conns, options) ==
    LET nodeList == IdList(ns) IN
    IF Len(nodeList) = 0 THEN Returned(EmptyMapping)
    ELSE CASE options.algorithm = "hierarchical" ->
                  hierarchicalLayout(nodeList, conns, options)
           [] options.algorithm = "circular" -> circularLayout(nodeList, options)
           [] options.algorithm = "grid" -> gridLayout(nodeList, options)
           [] OTHER -> Returned(EmptyMapping)

----------------------------------------------------------------------------
(* Inputs *)

MaxConnections == 1

MaxDependencies == 3

MaxLinks == 3

MaxForceConnections == 1

MaxDanglingDependencies == 2

SeqsUpTo(S, n) == UNION {[1..k -> S] : k \in 0..n}

\* the node maps {}, {a}, {a, b}, {a, b, c}, keys in insertion order
NodeMaps ==
    {[i \in 1..n |-> [id |-> IdOrder[i], position |-> Origin]] : n \in 0..Len(IdOrder)}

Connections(froms, tos, types) ==
    {[from |-> f, to |-> t, type |-> ty] : f \in froms, t \in tos, ty \in types}

SpacingOptions == {0, 100, -100}

\* the options objects {algorithm}, {algorithm, spacing} and {algorithm, maxIterations}
OptionsOf(algorithm, spacings, ceilings) ==
    {[algorithm |-> algorithm]}
    \cup {[algorithm |-> algorithm, spacing |-> s] : s \in spacings}
    \cup {[algorithm |-> algorithm, maxIterations |-> m] : m \in ceilings}

\* every endpoint of every connection is a key of the node map
EndpointsPresent(ns, conns) ==
    \A i \in 1..Len(conns) :
        conns[i].from \in NodeIdsOf(ns) /\ conns[i].to \in NodeIdsOf(ns)

\* no point has been converted
NoProbe == [space |-> "none", at |-> <<>>, trail |-> <<>>]

CanvasIdle ==
    /\ zoom = [num |-> 1, den |-> 1]
    /\ pan = [x |-> 0, y |-> 0]
    /\ visibleNodes = {}
    /\ visibleConnections = {}
    /\ probe = NoProbe
    /\ mounted = NoneMounted
    /\ StoreIdle

----------------------------------------------------------------------------
(* The layout service called on a supplied graph *)

\* applyLayout(nodes, connections, options); a force-directed layout of a
\* non-empty node map seeds its positions here and iterates in ForceIterate
ApplyLayout(options) ==
    /\ ~relax.running
    /\ call' = [op |-> "applyLayout", options |-> options, focus |-> Undefined]
    /\ IF options.algorithm = "force-directed" /\ Len(nodes) > 0
       THEN /\ relax' = Relaxation(IdList(nodes), options)
            /\ result' = NoResult
       ELSE /\ relax' = NoRelaxation
            /\ result' = applyLayout(nodes, connections, options)
    /\ UNCHANGED <<nodes, connections, canvasVars>>

\* one pass of for (let iteration = 0; iteration < maxIterations; iteration++)
ForceIterate ==
    /\ relax.running
    /\ relax.iteration < relax.maxIterations
    /\ relax' = [relax EXCEPT
                   !.positions = Relax(relax.positions, IdList(nodes), connections,
                                       relax.attractionForce, relax.repulsionForce),
                   !.iteration = @ + 1]
    /\ nodes' = [i \in 1..Len(nodes) |->
                    IF nodes[i].id \in relax.shared
                    THEN [nodes[i] EXCEPT !.position = relax'.positions[nodes[i].id]]
                    ELSE nodes[i]]
    /\ UNCHANGED <<connections, call, result, canvasVars>>

\* the loop is over: return positions
ForceReturn ==
    /\ relax.running
    /\ ~(relax.iteration < relax.maxIterations)
    /\ result' = [threw |-> FALSE, positions |-> relax.positions,
                  iterations |-> relax.iteration]
    /\ relax' = NoRelaxation
    /\ UNCHANGED <<nodes, connections, call, canvasVars>>

CenterOnNode(centerNodeId) ==
    /\ ~relax.running
    /\ call' = [op |-> "centerOnNode", options |-> NoOptions, focus |-> centerNodeId]
    /\ result' = centerOnNode(IdList(nodes), centerNodeId, connections)
    /\ UNCHANGED <<nodes, connections, relax, canvasVars>>

\* any graph, dangling connections included; all four algorithms and centerOnNode
Init ==
    /\ nodes \in NodeMaps
    /\ connections \in SeqsUpTo(Connections(NodeIds, NodeIds, ConnectionTypes), MaxConnections)
    /\ call = NoCall
    /\ result = NoResult
    /\ relax = NoRelaxation
    /\ CanvasIdle

Next ==
    \/ \E algorithm \in {"hierarchical", "circular", "grid"} :
          \E options \in OptionsOf(algorithm, {100}, {}) : ApplyLayout(options)
    \/ \E options \in OptionsOf("force-directed", {}, {1, 2}) \ {[algorithm |-> "force-directed"]} :
          ApplyLayout(options)
    \/ ForceIterate
    \/ ForceReturn
    \/ \E centerNodeId \in NodeIds : CenterOnNode(centerNodeId)

Spec == Init /\ [][Next]_vars

\* every dependency between nodes of the graph, and the connections of other
\* kinds a -> b and b -> c
HierConnections(ids) ==
    Connections(ids, ids, {"dependency"})
    \cup (Connections({"a"} \cap ids, {"b"} \cap ids, {"related"})
          \cup Connections({"b"} \cap ids, {"c"} \cap ids, {"blocking"}))

\* graphs whose connections join nodes of the graph; the hierarchical layout
InitHier ==
    /\ nodes \in NodeMaps
    /\ connections \in SeqsUpTo(HierConnections(NodeIdsOf(nodes)), MaxDependencies)
    /\ call = NoCall
    /\ result = NoResult
    /\ relax = NoRelaxation
    /\ CanvasIdle

\* the options objects of the hierarchical layout: with and without spacing, and
\* one with a centre
HierOptions ==
    OptionsOf("hierarchical", SpacingOptions, {})
    \cup {[algorithm |-> "hierarchical", spacing |-> 100, centerX |-> 30, centerY |-> -40]}

NextHier ==
    \E options \in HierOptions : ApplyLayout(options)

SpecHier == InitHier /\ [][NextHier]_vars

\* dependencies between any ids, those of no node included; the hierarchical layout
InitDangling ==
    /\ nodes \in NodeMaps
    /\ connections \in SeqsUpTo(Connections(NodeIds, NodeIds, {"dependency"}),
                                MaxDanglingDependencies)
    /\ call = NoCall
    /\ result = NoResult
    /\ relax = NoRelaxation
    /\ CanvasIdle

NextDangling ==
    \E options \in OptionsOf("hierarchical", {100}, {}) : ApplyLayout(options)

SpecDangling == InitDangling /\ [][NextDangling]_vars

MaxPlacedNodes == 6

PlacedIdOrder == <<"a", "b", "c", "d", "e", "f", "g", "h">>

\* the node maps of the first n ids, n up to MaxPlacedNodes
PlacedNodeMaps ==
    {[i \in 1..n |-> [id |-> PlacedIdOrder[i], position |-> Origin]] : n \in 0..MaxPlacedNodes}

\* options objects with and without spacing, centerX and centerY
PlacementOptions(algorithm) ==
    {[algorithm |-> algorithm]}
    \cup {[algorithm |-> algorithm, spacing |-> sp] : sp \in {0, 100, -100, 75}}
    \cup {[algorithm |-> algorithm, centerX |-> 30, centerY |-> -40],
          [algorithm |-> algorithm, spacing |-> 100, centerX |-> 30, centerY |-> -40]}

\* up to MaxPlacedNodes nodes and at most one connection; the circular and the grid layout
InitPlacement ==
    /\ nodes \in PlacedNodeMaps
    /\ connections \in SeqsUpTo(Connections({"a"}, {"b"}, ConnectionTypes), 1)
    /\ call = NoCall
    /\ result = NoResult
    /\ relax = NoRelaxation
    /\ CanvasIdle

NextPlacement ==
    \E algorithm \in {"circular", "grid"} :
        \E options \in PlacementOptions(algorithm) : ApplyLayout(options)

SpecPlacement == InitPlacement /\ [][NextPlacement]_vars

\* any graph, dangling connections included; centerOnNode on any id
InitCenter ==
    /\ nodes \in NodeMaps
    /\ connections \in SeqsUpTo(Connections(NodeIds, NodeIds, {"related"}), MaxLinks)
    /\ call = NoCall
    /\ result = NoResult
    /\ relax = NoRelaxation
    /\ CanvasIdle

NextCenter == \E centerNodeId \in NodeIds : CenterOnNode(centerNodeId)

SpecCenter == InitCenter /\ [][NextCenter]_vars

\* the force-directed layout with the iteration ceiling the caller supplies
InitForce ==
    /\ nodes \in NodeMaps
    /\ connections \in SeqsUpTo(Connections(NodeIds, NodeIds, {"related"}), MaxForceConnections)
    /\ call = NoCall
    /\ result = NoResult
    /\ relax = NoRelaxation
    /\ CanvasIdle

NextForce ==
    \/ \E options \in OptionsOf("force-directed", {}, {0, 1, 2, 3}) : ApplyLayout(options)
    \/ ForceIterate
    \/ ForceReturn

SpecForce == InitForce /\ [][NextForce]_vars

----------------------------------------------------------------------------
(* Canvas.tsx: visibleNodes and visibleConnections *)

NodeSize == 120

NodeHeight == 80

Buffer == 200

ScreenWidth == 400

ScreenHeight == 800

\* the rectangle as it would be with the buffer left out
ViewportNoBuffer(p, z) ==
    [left   |-> [num |-> (-p.x) * z.den, den |-> z.num],
     top    |-> [num |-> (-p.y) * z.den, den |-> z.num],
     right  |-> [num |-> (-p.x + ScreenWidth * Unit) * z.den, den |-> z.num],
     bottom |-> [num |-> (-p.y + ScreenHeight * Unit) * z.den, den |-> z.num]]

\* the viewport rectangle in world coordinates; each edge is the fraction
\* num / den of the code's division by zoom (zoom = zoom.num / zoom.den > 0)
Viewport(p, z) ==
    [left   |-> [num |-> (-p.x) * z.den - Buffer * Unit * z.num, den |-> z.num],
     top    |-> [num |-> (-p.y) * z.den - Buffer * Unit * z.num, den |-> z.num],
     right  |-> [num |-> (-p.x + ScreenWidth * Unit) * z.den + Buffer * Unit * z.num,
                 den |-> z.num],
     bottom |-> [num |-> (-p.y + ScreenHeight * Unit) * z.den + Buffer * Unit * z.num,
                 den |-> z.num]]

\* a < f and a > f for a number a and a fraction f with f.den > 0
Below(a, f) == a * f.den < f.num

Above(a, f) == a * f.den > f.num

\* the filter as it would be with the boundary excluded (<= and >=)
IsVisibleNodeStrict(node, p, z) ==
    LET v == Viewport(p, z)
        nodeLeft   == node.position.x
        nodeTop    == node.position.y
        nodeRight  == node.position.x + NodeSize * Unit
        nodeBottom == node.position.y + NodeHeight * Unit
    IN ~(\/ ~Above(nodeRight, v.left)
         \/ ~Below(nodeLeft, v.right)
         \/ ~Above(nodeBottom, v.top)
         \/ ~Below(nodeTop, v.bottom))

\* the filter of visibleNodes
IsVisibleNode(node, p, z) ==
    LET v == Viewport(p, z)
        nodeLeft   == node.position.x
        nodeTop    == node.position.y
        nodeRight  == node.position.x + NodeSize * Unit
        nodeBottom == node.position.y + NodeHeight * Unit
    IN ~(\/ Below(nodeRight, v.left)
         \/ Above(nodeLeft, v.right)
         \/ Below(nodeBottom, v.top)
         \/ Above(nodeTop, v.bottom))

VisibleNodes(ns, p, z) == {ns[i].id : i \in {j \in 1..Len(ns) : IsVisibleNode(ns[j], p, z)}}

\* the filter as it would be with one visible endpoint being enough
IsVisibleConnectionEither(ns, connection, visible) ==
    /\ connection.from \in NodeIdsOf(ns)
    /\ connection.to \in NodeIdsOf(ns)
    /\ (connection.from \in visible \/ connection.to \in visible)

\* the filter of visibleConnections: fromNode && toNode && both ids among visibleNodes
IsVisibleConnection(ns, connection, visible) ==
    /\ connection.from \in NodeIdsOf(ns)
    /\ connection.to \in NodeIdsOf(ns)
    /\ connection.from \in visible
    /\ connection.to \in visible

\* the connections kept, by their index in the list
VisibleConnections(ns, conns, visible) ==
    {i \in 1..Len(conns) : IsVisibleConnection(ns, conns[i], visible)}

\* renderNodes: a NodeComponent per visible node, keyed by the node id.  An
\* instance that stays keeps its refs: lastOffset and the pan responder whose
\* closure holds the zoom of the instance's first render; a new instance
\* takes them from the node and the zoom it is first rendered with.
Mounted(m, ns, visible, z) ==
    IF ~m.recorded THEN m
    ELSE [recorded |-> TRUE,
          views |->
            [id \in visible |->
                IF id \in DOMAIN m.views THEN m.views[id]
                ELSE LET node == ns[CHOOSE i \in 1..Len(ns) : ns[i].id = id] IN
                     [lastOffset |-> [x |-> node.position.x, y |-> node.position.y],
                      zoom |-> z]]]

\* the render after a store update: both memos are recomputed and the node
\* views are mounted and unmounted
Render(ns, conns, p, z) ==
    /\ visibleNodes' = VisibleNodes(ns, p, z)
    /\ visibleConnections' = VisibleConnections(ns, conns, VisibleNodes(ns, p, z))
    /\ mounted' = Mounted(mounted, ns, VisibleNodes(ns, p, z), z)

MaxCanvasConnections == 1

CanvasPositions == {Pos(x * Unit, y * Unit) : x \in {-400, -320, 600}, y \in {-280, 0}}

\* maps of up to two nodes, each at one of CanvasPositions
CanvasNodeMaps ==
    UNION {{[i \in 1..n |-> [id |-> IdOrder[i], position |-> at[i]]] :
              at \in [1..n -> CanvasPositions]} : n \in 0..2}

PanValues == {[x |-> x * Unit, y |-> 0] : x \in {-200, 0}}

ZoomValues == {[num |-> 1, den |-> 2], [num |-> 1, den |-> 1], [num |-> 2, den |-> 1]}

\* store.setPan
SetPan(p) ==
    /\ pan' = p
    /\ Render(nodes, connections, p, zoom)
    /\ UNCHANGED <<nodes, connections, call, result, relax, zoom, probe, storeVars>>

\* store.setZoom
SetZoom(z) ==
    /\ zoom' = z
    /\ Render(nodes, connections, pan, z)
    /\ UNCHANGED <<nodes, connections, call, result, relax, pan, probe, storeVars>>

\* store.updateNode(nodeId, {position}), the onMove of a node drag
UpdateNode(nodeId, position) ==
    /\ nodeId \in NodeIdsOf(nodes)
    /\ nodes' = [i \in 1..Len(nodes) |->
                    IF nodes[i].id = nodeId
                    THEN [nodes[i] EXCEPT !.position = position]
                    ELSE nodes[i]]
    /\ Render(nodes', connections, pan, zoom)
    /\ UNCHANGED <<connections, call, result, relax, zoom, pan, probe, storeVars>>

\* a loaded map on a mounted canvas; pan and zoom as the store creates them
InitCanvas ==
    /\ nodes \in CanvasNodeMaps
    /\ connections \in SeqsUpTo(Connections(NodeIds, NodeIds, {"related"}),
                                MaxCanvasConnections)
    /\ call = NoCall
    /\ result = NoResult
    /\ relax = NoRelaxation
    /\ zoom = [num |-> 1, den |-> 1]
    /\ pan = [x |-> 0, y |-> 0]
    /\ visibleNodes = VisibleNodes(nodes, pan, zoom)
    /\ visibleConnections = VisibleConnections(nodes, connections, visibleNodes)
    /\ probe = NoProbe
    /\ mounted = Mounted(NoneMounted, nodes, visibleNodes, zoom)
    /\ StoreIdle

NextCanvas ==
    \/ \E p \in PanValues : SetPan(p)
    \/ \E z \in ZoomValues : SetZoom(z)
    \/ \E nodeId \in NodeIds, position \in CanvasPositions : UpdateNode(nodeId, position)

SpecCanvas == InitCanvas /\ [][NextCanvas]_vars

----------------------------------------------------------------------------
(* Canvas.tsx and NodeComponent: world and screen coordinates.  A coordinate *)
(* is an exact fraction [num, den] of steps, in lowest terms with den > 0.   *)

Abs(a) == IF a < 0 THEN -a ELSE a

RECURSIVE Gcd(_, _)
Gcd(a, b) == IF b = 0 THEN a ELSE Gcd(b, a % b)

\* the number num / den (den # 0)
Fraction(num, den) ==
    LET g == Gcd(Abs(num), Abs(den))
        sign == IF den < 0 THEN -1 ELSE 1
    IN [num |-> sign * (num \div g), den |-> sign * (den \div g)]

\* c * zoom + offset
Projected(c, offset, z) ==
    Fraction(c.num * z.num + offset * c.den * z.den, c.den * z.den)

\* the inverse as it would be with the pan taken off after the division: s / zoom - offset
UnprojectedPanLast(s, offset, z) ==
    Fraction(s.num * z.den - offset * s.den * z.num, s.den * z.num)

\* (s - offset) / zoom
Unprojected(s, offset, z) ==
    Fraction((s.num - offset * s.den) * z.den, s.den * z.num)

\* x = position.x * zoom + pan.x, y = position.y * zoom + pan.y
worldToScreen(point, p, z) ==
    [x |-> Projected(point.x, p.x, z), y |-> Projected(point.y, p.y, z)]

\* cursorX = (x0 - pan.x) / zoom, cursorY = (y0 - pan.y) / zoom
screenToWorld(point, p, z) ==
    [x |-> Unprojected(point.x, p.x, z), y |-> Unprojected(point.y, p.y, z)]

\* the last two points the probe was at, oldest first
Trail(pr) ==
    IF Len(pr.trail) < 2 THEN Append(pr.trail, pr.at) ELSE <<pr.trail[2], pr.at>>

\* a world point is drawn on the screen
WorldToScreen ==
    /\ probe.space = "world"
    /\ probe' = [space |-> "screen", at |-> worldToScreen(probe.at, pan, zoom),
                 trail |-> Trail(probe)]
    /\ UNCHANGED <<nodes, connections, call, result, relax, zoom, pan, visibleNodes,
                   visibleConnections, mounted, storeVars>>

\* a screen point is reported in world coordinates
ScreenToWorld ==
    /\ probe.space = "screen"
    /\ probe' = [space |-> "world", at |-> screenToWorld(probe.at, pan, zoom),
                 trail |-> Trail(probe)]
    /\ UNCHANGED <<nodes, connections, call, result, relax, zoom, pan, visibleNodes,
                   visibleConnections, mounted, storeVars>>

ProbePoints ==
    {[x |-> Fraction(x * Unit, 1), y |-> Fraction(y * Unit, 1)] :
        x \in {-320, 0, 7}, y \in {-280, 1}}

ProbePans == {[x |-> x * Unit, y |-> y * Unit] : x \in {-200, 0}, y \in {0, 50}}

ProbeZooms == ZoomValues \cup {[num |-> 3, den |-> 1], [num |-> 2, den |-> 3]}

\* a point of the world or of the screen, under any camera
InitTransform ==
    /\ nodes = <<>>
    /\ connections = <<>>
    /\ call = NoCall
    /\ result = NoResult
    /\ relax = NoRelaxation
    /\ zoom \in ProbeZooms
    /\ pan \in ProbePans
    /\ visibleNodes = {}
    /\ visibleConnections = {}
    /\ probe \in {[space |-> space, at |-> point, trail |-> <<>>] :
                    space \in {"world", "screen"}, point \in ProbePoints}
    /\ mounted = NoneMounted
    /\ StoreIdle

NextTransform == WorldToScreen \/ ScreenToWorld

SpecTransform == InitTransform /\ [][NextTransform]_vars

----------------------------------------------------------------------------
(* Graph notions the claims are stated in, computed from the connection list *)

\* the last layout call has returned or raised
Done == call.op # "none" /\ ~relax.running

IsLayout(algorithm) ==
    call.op = "applyLayout" /\ call.options.algorithm = algorithm /\ ~relax.running

\* the connections whose two endpoints are keys of the node map
Attached(ns, conns) ==
    SelectSeq(conns, LAMBDA c : c.from \in NodeIdsOf(ns) /\ c.to \in NodeIdsOf(ns))

\* what call c gives on the graph (ns, conns)
Outcome(ns, conns, c) ==
    IF c.op = "centerOnNode" THEN centerOnNode(IdList(ns), c.focus, conns)
    ELSE IF c.options.algorithm = "force-directed" /\ Len(ns) > 0
    THEN LET start == Relaxation(IdList(ns), c.options) IN
         [threw |-> FALSE,
          positions |-> RelaxTimes(start.positions, IdList(ns), conns, start.attractionForce,
                                   start.repulsionForce, start.maxIterations),
          iterations |-> start.maxIterations]
    ELSE applyLayout(ns, conns, c.options)

\* the 'dependency' connections from -> to between nodes, as pairs
DependencyPairs(ns, conns) ==
    {<<conns[i].from, conns[i].to>> : i \in {j \in 1..Len(conns) :
        /\ conns[j].type = "dependency"
        /\ conns[j].from \in NodeIdsOf(ns)
        /\ conns[j].to \in NodeIdsOf(ns)}}

\* all connections between nodes, in both directions, as pairs
LinkPairs(ns, conns) ==
    UNION {{<<conns[i].from, conns[i].to>>, <<conns[i].to, conns[i].from>>} :
           i \in {j \in 1..Len(conns) :
                    conns[j].from \in NodeIdsOf(ns) /\ conns[j].to \in NodeIdsOf(ns)}}

Successors(pairs, from) == {p[2] : p \in {q \in pairs : q[1] \in from}}

\* the nodes reached from the set `from` along one or more pairs
RECURSIVE ReachedFrom(_, _, _)
ReachedFrom(pairs, from, seen) ==
    LET more == Successors(pairs, from) \ seen IN
    IF more = {} THEN seen ELSE ReachedFrom(pairs, more, seen \cup more)

Reach(pairs, id) == ReachedFrom(pairs, {id}, {})

OnCycle(pairs, id) == id \in Reach(pairs, id)

\* the nodes on a dependency cycle, or reachable from one along dependencies
BehindCycle(ns, conns) ==
    LET pairs == DependencyPairs(ns, conns) IN
    {id \in NodeIdsOf(ns) :
        \E u \in NodeIdsOf(ns) : OnCycle(pairs, u) /\ (id = u \/ id \in Reach(pairs, u))}

\* the nodes at distance exactly d from `focus` over the pairs
RECURSIVE AtDistance(_, _, _)
AtDistance(pairs, focus, d) ==
    IF d = 0 THEN {focus}
    ELSE Successors(pairs, AtDistance(pairs, focus, d - 1))
         \ UNION {AtDistance(pairs, focus, k) : k \in 0..(d - 1)}

\* the value the caller configured for an option: the one supplied, or the default
Configured(options, key, default) ==
    IF key \in DOMAIN options THEN options[key] ELSE default

\* the length of the longest path of pairs ending at id (no cycle leads to id)
RECURSIVE LongestPathTo(_, _)
LongestPathTo(pairs, id) ==
    LET sources == {p[1] : p \in {q \in pairs : q[2] = id}}
        lengths == {LongestPathTo(pairs, u) : u \in sources}
    IN IF sources = {} THEN 0
       ELSE 1 + CHOOSE l \in lengths : \A k \in lengths : k <= l

----------------------------------------------------------------------------
(* mindMapStore: applyLayout on the loaded map *)

\* defaultOptions = {algorithm, spacing: 200, centerX: 0, centerY: 0, maxIterations: 100,
\*                   attractionForce: 0.01, repulsionForce: 1000, ...options}
MergedOptions(algorithm, options) ==
    options @@ [algorithm |-> algorithm, spacing |-> 200, centerX |-> 0, centerY |-> 0,
                maxIterations |-> 100, attractionForce |-> 100, repulsionForce |-> 1000]

\* LayoutService.applyLayout(state.currentMap.nodes, state.currentMap.connections, defaultOptions)
LayoutOf(ns, conns, options) ==
    Outcome(ns, conns, [op |-> "applyLayout", options |-> options, focus |-> Undefined])

\* the update as it would be if a returned position were added to the node's own
RepositionedRelative(ns, positions) ==
    [i \in 1..Len(ns) |->
        IF ns[i].id \in DOMAIN positions
        THEN [ns[i] EXCEPT !.position =
                 Pos(@.x + ToXY(positions[ns[i].id]).x, @.y + ToXY(positions[ns[i].id]).y)]
        ELSE ns[i]]

\* the update as it would be if the returned mapping replaced the positions
\* wholesale: a node without an entry is left without a position of its own
RepositionedWholesale(ns, positions) ==
    [i \in 1..Len(ns) |->
        IF ns[i].id \in DOMAIN positions
        THEN [ns[i] EXCEPT !.position = ToXY(positions[ns[i].id])]
        ELSE [ns[i] EXCEPT !.position = Origin]]

\* updatedNodes = {...nodes}; updatedNodes[nodeId] = {...updatedNodes[nodeId], position}
\* for every entry of newPositions whose key is a node
Repositioned(ns, positions) ==
    [i \in 1..Len(ns) |->
        IF ns[i].id \in DOMAIN positions
        THEN [ns[i] EXCEPT !.position = ToXY(positions[ns[i].id])]
        ELSE ns[i]]

\* actions.applyLayout(algorithm, options); `again` records that the call
\* before it was the same call.  With no map loaded the state is kept
\* (`if (!state.currentMap) return {}`), and an exception of the service
\* leaves the state as it was.
ApplyLayoutUpdate(algorithm, options) ==
    /\ ~relax.running
    /\ LET merged  == MergedOptions(algorithm, options)
           outcome == IF loaded THEN LayoutOf(nodes, connections, merged) ELSE NoResult
       IN /\ call' = [op |-> "store.applyLayout", options |-> merged, focus |-> Undefined,
                      again |-> call.op = "store.applyLayout" /\ call.options = merged]
          /\ result' = outcome
          /\ nodes' = IF ~loaded \/ outcome.threw THEN nodes
                      ELSE Repositioned(nodes, outcome.positions)
    /\ Render(nodes', connections, pan, zoom)
    /\ UNCHANGED <<connections, relax, zoom, pan, probe>>

\* the call leaves the rest of the store alone
StoreApplyLayout(algorithm, options) ==
    ApplyLayoutUpdate(algorithm, options) /\ UNCHANGED storeVars

\* actions.centerOnNode(nodeId): `if (!state.currentMap?.nodes[nodeId]) return {}`,
\* then the same update with the mapping of LayoutService.centerOnNode
CenterOnNodeUpdate(nodeId) ==
    /\ ~relax.running
    /\ call' = [op |-> "store.centerOnNode", options |-> NoOptions, focus |-> nodeId,
                again |-> FALSE]
    /\ result' = IF ~loaded \/ nodeId \notin NodeIdsOf(nodes) THEN NoResult
                 ELSE centerOnNode(IdList(nodes), nodeId, connections)
    /\ nodes' = IF ~loaded \/ nodeId \notin NodeIdsOf(nodes) THEN nodes
                ELSE Repositioned(nodes, result'.positions)
    /\ Render(nodes', connections, pan, zoom)
    /\ UNCHANGED <<connections, relax, zoom, pan, probe>>

StoreCenterOnNode(nodeId) ==
    CenterOnNodeUpdate(nodeId) /\ UNCHANGED storeVars

MaxStoreConnections == 1

\* the loaded maps: up to three nodes, all at the origin or spread along a line
StoreNodeMaps ==
    NodeMaps
    \cup {[i \in 1..n |-> [id |-> IdOrder[i], position |-> Pos(i * 50 * Unit, 0)]] :
             n \in 1..Len(IdOrder)}

StoreConnections ==
    Connections(NodeIds, {"a", "b"}, {"dependency"}) \cup Connections({"b"}, {"c"}, {"related"})

\* the options a caller passes to the store; the force-directed layout is run
\* with an iteration ceiling of 1 or 2
StoreOptions(algorithm) ==
    IF algorithm = "force-directed"
    THEN {[maxIterations |-> m] : m \in {1, 2}}
    ELSE {[algorithm |-> algorithm], [spacing |-> 100], [spacing |-> 0]}

InitStore ==
    /\ nodes \in StoreNodeMaps
    /\ connections \in SeqsUpTo(StoreConnections, MaxStoreConnections)
    /\ call = NoCall
    /\ result = NoResult
    /\ relax = NoRelaxation
    /\ zoom = [num |-> 1, den |-> 1]
    /\ pan = [x |-> 0, y |-> 0]
    /\ visibleNodes = VisibleNodes(nodes, pan, zoom)
    /\ visibleConnections = VisibleConnections(nodes, connections, visibleNodes)
    /\ probe = NoProbe
    /\ mounted = Mounted(NoneMounted, nodes, visibleNodes, zoom)
    /\ StoreIdle

NextStore ==
    \E algorithm \in {"force-directed", "hierarchical", "circular", "grid"} :
        \E options \in StoreOptions(algorithm) : StoreApplyLayout(algorithm, options)

SpecStore == InitStore /\ [][NextStore]_vars

\* maps whose nodes all have a position of their own, away from the seeding
\* circle; the force-directed layout
InitSeeded ==
    /\ nodes \in StoreNodeMaps \ NodeMaps
    /\ connections \in SeqsUpTo(Connections(NodeIds, NodeIds, {"related"}), MaxForceConnections)
    /\ call = NoCall
    /\ result = NoResult
    /\ relax = NoRelaxation
    /\ CanvasIdle

SpecSeeded == InitSeeded /\ [][NextForce]_vars

----------------------------------------------------------------------------
(* Claims *)

\* C1: every layout algorithm and centerOnNode ignores a connection whose from
\* or to is no key of the node map: the call returns, and returns what it
\* returns with those connections removed.
C1_DanglingConnectionsIgnored ==
    Done => /\ ~result.threw
            /\ result = Outcome(nodes, Attached(nodes, connections), call)

\* C2: when all endpoints are present, the keys of the returned mapping are
\* node ids, and for circular, grid and force-directed they are all the node ids.
C2_KeysAreNodeIds ==
    (Done /\ EndpointsPresent(nodes, connections)) =>
        /\ DOMAIN result.positions \subseteq NodeIdsOf(nodes)
        /\ (/\ call.op = "applyLayout"
            /\ call.options.algorithm \in {"circular", "grid", "force-directed"})
           => DOMAIN result.positions = NodeIdsOf(nodes)

C2_Witness ==
    /\ IsLayout("hierarchical")
    /\ EndpointsPresent(nodes, connections)
    /\ Len(nodes) = 3
    /\ DOMAIN result.positions # NodeIdsOf(nodes)
    /\ DOMAIN result.positions # {}

\* C3: hierarchical layout with spacing > 0 puts the target of every dependency
\* strictly below its source, when both are in the returned mapping.
C3_DependencyTargetBelowSource ==
    (IsLayout("hierarchical") /\ OrDefault(call.options, "spacing", 200) > 0) =>
        \A i \in 1..Len(connections) :
            (/\ connections[i].type = "dependency"
             /\ connections[i].from \in DOMAIN result.positions
             /\ connections[i].to \in DOMAIN result.positions)
            => result.positions[connections[i].to].y > result.positions[connections[i].from].y

\* a -> b, b -> c and a -> c in some order: c is two layers below a
C3_Witness ==
    /\ IsLayout("hierarchical")
    /\ OrDefault(call.options, "spacing", 200) > 0
    /\ DependencyPairs(nodes, connections) = {<<"a", "b">>, <<"b", "c">>, <<"a", "c">>}
    /\ DOMAIN result.positions = {"a", "b", "c"}
    /\ result.positions["c"].y > result.positions["b"].y

\* C4: the force-directed layout runs as many iterations as the maxIterations
\* option says, and with maxIterations = 0 it returns the seeded positions.
C4_IterationsAsSupplied ==
    (IsLayout("force-directed") /\ Len(nodes) > 0 /\ "maxIterations" \in DOMAIN call.options) =>
        /\ result.iterations = call.options.maxIterations
        /\ call.options.maxIterations = 0
           => result.positions = SeedPositions(IdList(nodes), 1, EmptyMapping)

\* C5: on a graph with a dependency cycle the hierarchical layout returns
\* without raising, and the mapping omits exactly the nodes on a cycle or
\* reachable from one along dependencies.
C5_CycleNodesOmitted ==
    (/\ IsLayout("hierarchical")
     /\ \E id \in NodeIdsOf(nodes) : OnCycle(DependencyPairs(nodes, connections), id)) =>
        /\ ~result.threw
        /\ DOMAIN result.positions = NodeIdsOf(nodes) \ BehindCycle(nodes, connections)

\* C6: centerOnNode on a focus that is a node returns a mapping whose keys are
\* exactly the connected component of the focus over the attached connections.
C6_KeysAreComponent ==
    (call.op = "centerOnNode" /\ call.focus \in NodeIdsOf(nodes)) =>
        DOMAIN result.positions =
            {call.focus} \cup Reach(LinkPairs(nodes, connections), call.focus)

\* the focus has a neighbour and the third node is not connected to them
C6_Witness ==
    /\ call.op = "centerOnNode"
    /\ call.focus \in NodeIdsOf(nodes)
    /\ Len(nodes) = 3
    /\ Cardinality(DOMAIN result.positions) = 2
    /\ Len(connections) > 1

\* C7: centerOnNode puts the focus at the origin and every node at distance
\* d >= 1 from the focus on the circle of radius d * 150 around the origin.
C7_RadiusIsDistance ==
    (call.op = "centerOnNode" /\ call.focus \in NodeIdsOf(nodes)) =>
        /\ result.positions[call.focus] = Origin
        /\ \A d \in 1..Len(nodes) :
             \A id \in AtDistance(LinkPairs(nodes, connections), call.focus, d) :
                /\ id \in DOMAIN result.positions
                /\ result.positions[id].x = 0
                /\ result.positions[id].y = 0
                /\ result.positions[id].r = d * 150 * Unit

\* a node at distance 2 from the focus
C7_Witness ==
    /\ call.op = "centerOnNode"
    /\ call.focus \in NodeIdsOf(nodes)
    /\ AtDistance(LinkPairs(nodes, connections), call.focus, 2) # {}
    /\ \E id \in DOMAIN result.positions : result.positions[id].r = 2 * 150 * Unit

\* the node's box [x, x + 120] x [y, y + 80] and the buffered rectangle of the
\* camera have a point in common (zoom > 0; both sides multiplied by zoom)
BoxMeetsBufferedViewport(node, p, z) ==
    /\ (-p.x) * z.den - Buffer * Unit * z.num <= (node.position.x + NodeSize * Unit) * z.num
    /\ node.position.x * z.num <= (-p.x + ScreenWidth * Unit) * z.den + Buffer * Unit * z.num
    /\ (-p.y) * z.den - Buffer * Unit * z.num <= (node.position.y + NodeHeight * Unit) * z.num
    /\ node.position.y * z.num <= (-p.y + ScreenHeight * Unit) * z.den + Buffer * Unit * z.num

NodeOf(ns, id) == ns[CHOOSE i \in 1..Len(ns) : ns[i].id = id]

\* C8: for zoom > 0 a node is in visibleNodes iff its box meets the buffered
\* viewport rectangle, the boundary included.
C8_VisibleIffBoxMeetsViewport ==
    \A i \in 1..Len(nodes) :
        nodes[i].id \in visibleNodes <=> BoxMeetsBufferedViewport(nodes[i], pan, zoom)

\* at zoom 2: one node whose box only touches the left edge of the rectangle
\* (it is kept), and one entirely outside (it is dropped)
C8_Witness ==
    /\ zoom = [num |-> 2, den |-> 1]
    /\ \E i, j \in 1..Len(nodes) :
          /\ (nodes[i].position.x + NodeSize * Unit) * zoom.num
                = (-pan.x) * zoom.den - Buffer * Unit * zoom.num
          /\ nodes[i].id \in visibleNodes
          /\ nodes[j].id \notin visibleNodes

\* C9: a connection is in visibleConnections iff both its endpoints are in
\* visibleNodes; never with one visible endpoint or a missing endpoint.
C9_VisibleIffBothEndpointsVisible ==
    \A i \in 1..Len(connections) :
        /\ i \in visibleConnections <=>
              (connections[i].from \in visibleNodes /\ connections[i].to \in visibleNodes)
        /\ (connections[i].from \notin NodeIdsOf(nodes) \/ connections[i].to \notin NodeIdsOf(nodes))
              => i \notin visibleConnections

\* a connection with exactly one visible endpoint, which is dropped
C9_Witness ==
    /\ pan # [x |-> 0, y |-> 0]
    /\ \E i \in 1..Len(connections) :
          /\ connections[i].from \in visibleNodes
          /\ connections[i].to \in NodeIdsOf(nodes) \ visibleNodes
          /\ i \notin visibleConnections

\* C10 as stated: a connection between two nodes with at least one endpoint
\* node within the buffered rectangle is in visibleConnections.
C10_NoPartlyVisibleConnectionDropped ==
    \A i \in 1..Len(connections) :
        (/\ connections[i].from \in NodeIdsOf(nodes)
         /\ connections[i].to \in NodeIdsOf(nodes)
         /\ \/ BoxMeetsBufferedViewport(NodeOf(nodes, connections[i].from), pan, zoom)
            \/ BoxMeetsBufferedViewport(NodeOf(nodes, connections[i].to), pan, zoom))
        => i \in visibleConnections

\* C10 amended: a connection whose two endpoint nodes are both within the
\* buffered rectangle, at least partly, is in visibleConnections.
C10_ConnectionOfTwoVisibleBoxesKept ==
    \A i \in 1..Len(connections) :
        (/\ connections[i].from \in NodeIdsOf(nodes)
         /\ connections[i].to \in NodeIdsOf(nodes)
         /\ BoxMeetsBufferedViewport(NodeOf(nodes, connections[i].from), pan, zoom)
         /\ BoxMeetsBufferedViewport(NodeOf(nodes, connections[i].to), pan, zoom))
        => i \in visibleConnections

\* a connection between two different nodes, one of them only touching the
\* rectangle, kept after a zoom
C10_Witness ==
    /\ zoom # [num |-> 1, den |-> 1]
    /\ \E i \in 1..Len(connections) :
          /\ connections[i].from # connections[i].to
          /\ i \in visibleConnections
          /\ \E n \in 1..Len(nodes) :
                /\ nodes[n].id = connections[i].from
                /\ (nodes[n].position.y + NodeHeight * Unit) * zoom.num
                      = (-pan.y) * zoom.den - Buffer * Unit * zoom.num

\* C11: for zoom > 0, a point taken to the screen with p * zoom + pan and back
\* with (s - pan) / zoom is the point it was, and so is a screen point taken to
\* the world and back.
C11_RoundTripReturnsPoint ==
    Len(probe.trail) = 2 => probe.at = probe.trail[1]

\* a world point back from the screen under zoom 2/3 and a pan, the screen
\* point being another point, with coordinates that are no whole steps
C11_Witness ==
    /\ probe.space = "world"
    /\ Len(probe.trail) = 2
    /\ zoom = [num |-> 2, den |-> 3]
    /\ pan.x # 0 /\ pan.y # 0
    /\ probe.trail[2] # probe.at
    /\ probe.trail[2].x.den # 1

\* the least c with c * c >= n, and the least r with r * c >= n (n >= 1)
GridColumns(n) == CHOOSE c \in 1..n : c * c >= n /\ (c - 1) * (c - 1) < n

GridRows(n) == CHOOSE r \in 1..n : r * GridColumns(n) >= n /\ (r - 1) * GridColumns(n) < n

\* C12: the grid layout of N >= 1 nodes with spacing s # 0 puts index i at
\* column i mod C and row floor(i / C), C = ceil(sqrt(N)), cells s apart;
\* C columns and ceil(N / C) rows are occupied and no two nodes share a position.
C12_GridIsLattice ==
    (/\ IsLayout("grid")
     /\ Len(nodes) >= 1
     /\ ~("spacing" \in DOMAIN call.options /\ call.options.spacing = 0)) =>
        LET spacing == OrDefault(call.options, "spacing", 150) * Unit
            ids == IdList(nodes)
            at(i) == result.positions[ids[i]]
            indices == 1..Len(nodes)
        IN /\ DOMAIN result.positions = NodeIdsOf(nodes)
           /\ \A i \in indices :
                 /\ at(i).x = at(1).x + ((i - 1) % GridColumns(Len(nodes))) * spacing
                 /\ at(i).y = at(1).y + ((i - 1) \div GridColumns(Len(nodes))) * spacing
           /\ Cardinality({at(i).x : i \in indices}) = GridColumns(Len(nodes))
           /\ Cardinality({at(i).y : i \in indices}) = GridRows(Len(nodes))
           /\ \A i, j \in indices : i # j => at(i) # at(j)

\* five nodes: three columns, the second row partly filled, negative spacing
C12_Witness ==
    /\ IsLayout("grid")
    /\ Len(nodes) = 5
    /\ "spacing" \in DOMAIN call.options /\ call.options.spacing = -100
    /\ result.positions["e"].x = result.positions["b"].x
    /\ result.positions["e"].y = result.positions["b"].y - 100 * Unit

\* C13: the circular layout puts index i of N at angle 2 * pi * i / N on the
\* circle around (centerX, centerY), at distance exactly `spacing` from the
\* centre for every spacing the caller supplies (a distance is not negative:
\* stated for the supplied spacings >= 0).
C13_CircleRadiusIsSpacing ==
    (/\ IsLayout("circular")
     /\ "spacing" \in DOMAIN call.options
     /\ call.options.spacing >= 0) =>
        \A i \in 1..Len(nodes) :
            LET at == result.positions[nodes[i].id] IN
            /\ at.x = OrDefault(call.options, "centerX", 0) * Unit
            /\ at.y = OrDefault(call.options, "centerY", 0) * Unit
            /\ at.num = i - 1
            /\ at.den = Len(nodes)
            /\ Abs(at.r) = call.options.spacing * Unit

C15_DegenerateInputsGiveEmptyMapping ==
    /\ (Done /\ call.op = "applyLayout" /\ Len(nodes) = 0) =>
          (~result.threw /\ result.positions = EmptyMapping)
    /\ (call.op = "centerOnNode" /\ call.focus \notin NodeIdsOf(nodes)) =>
          (~result.threw /\ result.positions = EmptyMapping)

\* the hierarchical layout of no nodes and one dependency connection
C15_Witness ==
    /\ IsLayout("hierarchical")
    /\ Len(nodes) = 0
    /\ Len(connections) = 1
    /\ connections[1].type = "dependency"
    /\ result = Returned(EmptyMapping)

C17_LayerIsLongestDependencyPath ==
    IsLayout("hierarchical") =>
        /\ \A id \in DOMAIN result.positions :
              /\ id \notin BehindCycle(nodes, connections)
              /\ result.positions[id].y =
                    (Configured(call.options, "centerY", 0)
                     + Configured(call.options, "spacing", 200)
                       * LongestPathTo(DependencyPairs(nodes, connections), id)) * Unit
        /\ result = Outcome(nodes, SelectSeq(connections, LAMBDA c : c.type = "dependency"), call)

\* C18: the hierarchical layout spreads the k nodes of each layer at consecutive
\* x-distances of `spacing`, centred on centerX: the midpoint of the least and
\* the greatest x of the layer is centerX.
C18_LayerCentredOnCenterX ==
    IsLayout("hierarchical") =>
        \A id \in DOMAIN result.positions :
            LET layer == {u \in DOMAIN result.positions :
                            result.positions[u].y = result.positions[id].y}
                xs == {result.positions[u].x : u \in layer}
                lo == CHOOSE x \in xs : \A other \in xs : x <= other
                hi == CHOOSE x \in xs : \A other \in xs : x >= other
                step == Abs(Configured(call.options, "spacing", 200)) * Unit
            IN /\ xs = {lo + k * step : k \in 0..(Cardinality(layer) - 1)}
               /\ lo + hi = 2 * Configured(call.options, "centerX", 0) * Unit

\* C19: the grid layout is centred as a block: for every N >= 1 the midpoint of
\* the bounding box of the returned positions is (centerX, centerY), also when
\* the last row is partly filled.
C19_GridCentredOnCentre ==
    (IsLayout("grid") /\ Len(nodes) >= 1) =>
        LET xs == {result.positions[id].x : id \in DOMAIN result.positions}
            ys == {result.positions[id].y : id \in DOMAIN result.positions}
            Least(S) == CHOOSE v \in S : \A w \in S : v <= w
            Greatest(S) == CHOOSE v \in S : \A w \in S : v >= w
        IN /\ Least(xs) + Greatest(xs) = 2 * Configured(call.options, "centerX", 0) * Unit
           /\ Least(ys) + Greatest(ys) = 2 * Configured(call.options, "centerY", 0) * Unit

\* five nodes around (30, -40): three columns, the second row partly filled
C19_Witness ==
    /\ IsLayout("grid")
    /\ Len(nodes) = 5
    /\ "centerX" \in DOMAIN call.options /\ "spacing" \in DOMAIN call.options
    /\ result.positions["a"] = Pos(-70 * Unit, -90 * Unit)
    /\ result.positions["e"] = Pos(30 * Unit, 10 * Unit)

\* C20: the force-directed layout seeds only the nodes that lack a position; a
\* node that has a position starts the relaxation from that position.
C20_ExistingPositionsKept ==
    (relax.running /\ relax.iteration = 0) =>
        \A i \in 1..Len(nodes) : relax.positions[nodes[i].id] = nodes[i].position

----------------------------------------------------------------------------
(* forceDirectedLayout with a strong attraction: connected nodes are pulled  *)
(* to within a unit of each other by the first iteration                     *)

\* the options objects {algorithm, attractionForce, repulsionForce, maxIterations}
ForceOptions(attractions, repulsions, ceilings) ==
    {[algorithm |-> "force-directed", attractionForce |-> a, repulsionForce |-> r,
      maxIterations |-> m] : a \in attractions, r \in repulsions, m \in ceilings}

\* attractionForce 0.5555 and 0.5, repulsionForce 1 and 2
NextAttract ==
    \/ \E options \in ForceOptions({5555, 5000}, {1, 2}, {1, 2}) : ApplyLayout(options)
    \/ ForceIterate
    \/ ForceReturn

SpecAttract == InitForce /\ [][NextAttract]_vars

\* the divisor `distance` of the repulsion of `id` by `other`, in hundredths
DivisorOf(positions, id, other) ==
    Distance(positions[other].x - positions[id].x, positions[other].y - positions[id].y)

\* C21: in force-directed repulsion a minimum-distance floor of 1 unit is
\* applied: before every iteration, for every ordered pair of distinct nodes, the
\* distance used as divisor is at least 1, and the repulsive displacement of
\* the iteration (force times the damping 0.9) is at most repulsionForce * 0.9
\* in each coordinate
C21_RepulsionDivisorAtLeastOne ==
    relax.running /\ relax.iteration < relax.maxIterations =>
        \A id \in DOMAIN relax.positions : \A other \in DOMAIN relax.positions \ {id} :
            LET f == RepulsionFrom(relax.positions, id, other, relax.repulsionForce) IN
            /\ DivisorOf(relax.positions, id, other) >= Centi
            /\ Abs(f.x) * 9 <= relax.repulsionForce * Unit * 9
            /\ Abs(f.y) * 9 <= relax.repulsionForce * Unit * 9

----------------------------------------------------------------------------
(* Every layout on graphs with cycles, self-loops and duplicate edges; the   *)
(* for loop of forceDirectedLayout runs on once it has started               *)

MaxCycleConnections == 2

InitTerminate ==
    /\ nodes \in NodeMaps
    /\ connections \in SeqsUpTo(Connections(NodeIdsOf(nodes), NodeIdsOf(nodes), {"dependency"}),
                                MaxCycleConnections)
    /\ call = NoCall
    /\ result = NoResult
    /\ relax = NoRelaxation
    /\ CanvasIdle

NextTerminate ==
    \/ \E algorithm \in {"force-directed", "hierarchical", "circular", "grid"} :
          ApplyLayout([algorithm |-> algorithm])
    \/ ForceIterate
    \/ ForceReturn
    \/ \E centerNodeId \in NodeIds : CenterOnNode(centerNodeId)

\* iteration < maxIterations, the test of the for loop
LoopContinues == relax.running /\ relax.iteration < relax.maxIterations

\* a started call runs to its end: the loop takes its next pass, and returns.
\* The weak fairness of ForceIterate is written out, with the loop test for
\* ENABLED <<ForceIterate>>_vars (a pass always advances relax.iteration).
SpecTerminate ==
    /\ InitTerminate /\ [][NextTerminate]_vars
    /\ WF_vars(ForceReturn)
    /\ ([]<>~LoopContinues \/ []<><<ForceIterate>>_vars)

\* the ids of all layers, one after the other
RECURSIVE Flattened(_)
Flattened(levels) ==
    IF Len(levels) = 0 THEN <<>> ELSE Head(levels) \o Flattened(Tail(levels))

NoRepeats(seq) == \A i, j \in 1..Len(seq) : seq[i] = seq[j] => i = j

\* C22: every layout operation terminates on every finite graph whose edge
\* endpoints are present, cycles, self-loops and duplicate edges included: no
\* call raises, hierarchical puts each node into at most one layer,
\* centerOnNode enqueues each node at most once, and a started force-directed
\* loop returns after its fixed iteration count
C22_LayoutsTerminate ==
    /\ [](Done => ~result.threw)
    /\ [](IsLayout("hierarchical") =>
            NoRepeats(Flattened(Levels(IdList(nodes), connections).levels)))
    /\ [](call.op = "centerOnNode" /\ call.focus \in NodeIdsOf(nodes) =>
            NoRepeats(BfsLevels(NodeIdsOf(nodes), connections, 0,
                                BfsStart(call.focus)).enqueued))
    /\ (relax.running ~>
            (~relax.running /\ result.iterations = MaxIterationsOf(call.options)))

\* a force-directed call over two nodes joined in a cycle has returned after
\* its 100 iterations
C22_Witness ==
    /\ IsLayout("force-directed")
    /\ result.iterations = 100
    /\ Len(connections) = 2
    /\ connections[1].from = connections[2].to
    /\ connections[1].to = connections[2].from
    /\ connections[1].from # connections[1].to

----------------------------------------------------------------------------
(* mindMapStore: applyLayout and centerOnNode on any store: no map loaded,   *)
(* or a map whose nodes have a title and a position of their own; no node    *)
(* selected and the camera as created, or node a selected and the camera     *)
(* moved                                                                     *)

\* the nodes with the field `title` beside id and position
Titled(ns) ==
    [i \in 1..Len(ns) |-> [id |-> ns[i].id, title |-> "idea", position |-> ns[i].position]]

InitPartial ==
    /\ loaded \in BOOLEAN
    /\ nodes \in IF loaded THEN {Titled(ns) : ns \in StoreNodeMaps \ NodeMaps} ELSE {<<>>}
    /\ connections \in IF loaded THEN SeqsUpTo(StoreConnections, MaxStoreConnections)
                       ELSE {<<>>}
    /\ call = NoCall
    /\ result = NoResult
    /\ relax = NoRelaxation
    /\ selectedNode \in {Undefined, "a"}
    /\ zoom = IF selectedNode = Undefined THEN [num |-> 1, den |-> 1] ELSE [num |-> 2, den |-> 1]
    /\ pan = IF selectedNode = Undefined THEN [x |-> 0, y |-> 0] ELSE [x |-> -200 * Unit, y |-> 0]
    /\ visibleNodes = VisibleNodes(nodes, pan, zoom)
    /\ visibleConnections = VisibleConnections(nodes, connections, visibleNodes)
    /\ probe = NoProbe
    /\ mounted = Mounted(NoneMounted, nodes, visibleNodes, zoom)
    /\ history = NoHistory
    /\ gesture = NoGesture(pan, selectedNode)

NextPartial ==
    \/ \E algorithm \in {"hierarchical", "circular", "grid"} :
          StoreApplyLayout(algorithm, [algorithm |-> algorithm])
    \/ StoreApplyLayout("force-directed", [maxIterations |-> 1])
    \/ \E nodeId \in NodeIds : StoreCenterOnNode(nodeId)

SpecPartial == InitPartial /\ [][NextPartial]_vars

\* C23: the store's applyLayout and centerOnNode apply the returned mapping as
\* a partial update: the node ids and their order, every field of a node
\* other than its position, the connection list, zoom, pan and selectedNode
\* are unchanged, a node absent from the returned mapping keeps its position,
\* and with no map loaded, or an unknown focus id, the state is unchanged
C23_LayoutIsPartialUpdate ==
    [][/\ IdList(nodes') = IdList(nodes)
       /\ \A i \in 1..Len(nodes) :
            /\ [nodes'[i] EXCEPT !.position = nodes[i].position] = nodes[i]
            /\ nodes[i].id \notin DOMAIN result'.positions => nodes'[i] = nodes[i]
       /\ connections' = connections
       /\ zoom' = zoom
       /\ pan' = pan
       /\ selectedNode' = selectedNode
       /\ loaded' = loaded
       /\ (\/ ~loaded
           \/ call'.op = "store.centerOnNode" /\ call'.focus \notin NodeIdsOf(nodes))
          => /\ nodes' = nodes
             /\ history' = history
             /\ visibleNodes' = visibleNodes]_vars

\* a layout has moved one node while another, absent from the mapping, has
\* stayed where it was, away from the origin
C23_Witness ==
    /\ call.op \in {"store.applyLayout", "store.centerOnNode"}
    /\ ~result.threw
    /\ \E i, j \in 1..Len(nodes) :
          /\ nodes[i].id \notin DOMAIN result.positions
          /\ nodes[i].position # Origin
          /\ nodes[j].id \in DOMAIN result.positions
          /\ nodes[j].position = ToXY(result.positions[nodes[j].id])
          /\ nodes[j].position # Pos(j * 50 * Unit, 0)

----------------------------------------------------------------------------
(* Minimap.tsx: the drawing of the world in the minimap square, and the      *)
(* press that moves the camera.  Minimap lengths are in steps as well.       *)

MinimapSize == 120

MinimapPadding == 10

\* the number n as a fraction
Whole(n) == [num |-> n, den |-> 1]

Plus(a, b) == Fraction(a.num * b.den + b.num * a.den, a.den * b.den)

Minus(a, b) == Fraction(a.num * b.den - b.num * a.den, a.den * b.den)

Times(a, b) == Fraction(a.num * b.num, a.den * b.den)

Over(a, b) == Fraction(a.num * b.den, a.den * b.num)

\* Math.min(...) and Math.max(...) of a non-empty set of numbers
MinOf(S) == CHOOSE a \in S : \A b \in S : a <= b

MaxOf(S) == CHOOSE a \in S : \A b \in S : a >= b

\* minimapData: bounds.minX, bounds.minY and scale
minimapData(ns) ==
    IF Len(ns) = 0
    THEN [minX |-> 0, minY |-> 0, scale |-> Whole(1)]
    ELSE LET minX == MinOf({ns[i].position.x : i \in 1..Len(ns)})
             minY == MinOf({ns[i].position.y : i \in 1..Len(ns)})
             maxX == MaxOf({ns[i].position.x + 120 * Unit : i \in 1..Len(ns)})
             maxY == MaxOf({ns[i].position.y + 80 * Unit : i \in 1..Len(ns)})
             mapWidth  == IF maxX - minX = 0 THEN 100 * Unit ELSE maxX - minX
             mapHeight == IF maxY - minY = 0 THEN 100 * Unit ELSE maxY - minY
             across == Fraction((MinimapSize - 2 * MinimapPadding) * Unit, mapWidth)
             down   == Fraction((MinimapSize - 2 * MinimapPadding) * Unit, mapHeight)
         IN [minX |-> minX, minY |-> minY,
             scale |-> IF across.num * down.den <= down.num * across.den THEN across ELSE down]

\* x: (node.position.x - minX) * scale + MINIMAP_PADDING, and y alike: where
\* the world point w is drawn
transformedPoint(w, data) ==
    [x |-> Plus(Times(Minus(w.x, Whole(data.minX)), data.scale), Whole(MinimapPadding * Unit)),
     y |-> Plus(Times(Minus(w.y, Whole(data.minY)), data.scale), Whole(MinimapPadding * Unit))]

\* one coordinate of handleMinimapPress as it would be without
\* `relativeX = locationX - MINIMAP_PADDING`
NewPanFromCorner(location, min, scale, z, extent) ==
    LET world == Plus(Over(location, scale), Whole(min))
    IN Minus(Whole(0), Minus(Times(world, z), Fraction(extent, 2)))

\* one coordinate of handleMinimapPress: relativeX, worldX, newPanX
NewPan(location, min, scale, z, extent) ==
    LET relative == Minus(location, Whole(MinimapPadding * Unit))
        world    == Plus(Over(relative, scale), Whole(min))
    IN Minus(Whole(0), Minus(Times(world, z), Fraction(extent, 2)))

\* handleMinimapPress: the pan given to onViewportChange
handleMinimapPress(location, data, z) ==
    [x |-> NewPan(location.x, data.minX, data.scale, z, ScreenWidth * Unit),
     y |-> NewPan(location.y, data.minY, data.scale, z, ScreenHeight * Unit)]

\* the number of steps of a fraction of steps
Steps(f) == f.num \div f.den

\* a press on the minimap at the place where the world point w is drawn;
\* onViewportChange is actions.setPan.  The minimap exists with a map loaded.
MinimapPress(w) ==
    /\ loaded
    /\ LET data     == minimapData(nodes)
           location == transformedPoint(w, data)
           newPan   == handleMinimapPress(location, data, zoom)
       IN /\ probe' = [space |-> "minimap", at |-> location, trail |-> <<w>>]
          /\ pan' = [x |-> Steps(newPan.x), y |-> Steps(newPan.y)]
    /\ Render(nodes, connections, pan', zoom)
    /\ UNCHANGED <<nodes, connections, call, result, relax, zoom, storeVars>>

\* the points pressed: the corners and the centres of nodes, and points off
\* every node
MinimapPoints ==
    {[x |-> Whole(x * Unit), y |-> Whole(y * Unit)] :
        x \in {-400, -340, 600}, y \in {-280, 1}}

InitMinimap ==
    /\ nodes \in CanvasNodeMaps
    /\ connections = <<>>
    /\ call = NoCall
    /\ result = NoResult
    /\ relax = NoRelaxation
    /\ zoom = [num |-> 1, den |-> 1]
    /\ pan = [x |-> 0, y |-> 0]
    /\ visibleNodes = VisibleNodes(nodes, pan, zoom)
    /\ visibleConnections = VisibleConnections(nodes, connections, visibleNodes)
    /\ probe = NoProbe
    /\ mounted = Mounted(NoneMounted, nodes, visibleNodes, zoom)
    /\ StoreIdle

NextMinimap ==
    \/ \E w \in MinimapPoints : MinimapPress(w)
    \/ \E z \in ZoomValues : SetZoom(z)

SpecMinimap == InitMinimap /\ [][NextMinimap]_vars

\* the centre of the screen
ScreenCentre ==
    [x |-> Fraction(ScreenWidth * Unit, 2), y |-> Fraction(ScreenHeight * Unit, 2)]

\* C24: minimap navigation is the inverse of the minimap drawing transform:
\* a press at the point where the world point w is drawn,
\* (w - min) * scale + padding, gives a pan under which w is drawn at the
\* centre of the screen, w * zoom + newPan = (width / 2, height / 2), and
\* leaves the zoom unchanged (the presses are the steps that write pan or
\* the pressed point)
C24_MinimapPressCentresPoint ==
    [][pan' # pan \/ probe' # probe =>
          /\ zoom' = zoom
          /\ probe'.at = transformedPoint(probe'.trail[1], minimapData(nodes))
          /\ worldToScreen(probe'.trail[1], pan', zoom') = ScreenCentre]_vars

\* a press, under a zoom other than 1, on a point of a map of two nodes
\* which is not the corner of the bounds
C24_Witness ==
    /\ probe.space = "minimap"
    /\ zoom # [num |-> 1, den |-> 1]
    /\ Len(nodes) = 2
    /\ probe.at.x # Whole(MinimapPadding * Unit)
    /\ probe.at.y # Whole(MinimapPadding * Unit)
    /\ worldToScreen(probe.trail[1], pan, zoom) = ScreenCentre

----------------------------------------------------------------------------
(* centerOnNode on stars: node a joined to each of the next nodes, up to     *)
(* seven of them, by a connection in either direction                        *)

\* the eight nodes a .. h
StarNodes == [i \in 1..Len(PlacedIdOrder) |-> [id |-> PlacedIdOrder[i], position |-> Origin]]

\* the connection lists joining a to the nodes 2 .. k + 1, in key order
StarConnections ==
    UNION {{[i \in 1..k |->
                IF outward[i]
                THEN [from |-> "a", to |-> PlacedIdOrder[i + 1], type |-> "related"]
                ELSE [from |-> PlacedIdOrder[i + 1], to |-> "a", type |-> "related"]] :
              outward \in [1..k -> BOOLEAN]} : k \in 0..(Len(PlacedIdOrder) - 1)}

InitStar ==
    /\ nodes = StarNodes
    /\ connections \in StarConnections
    /\ call = NoCall
    /\ result = NoResult
    /\ relax = NoRelaxation
    /\ CanvasIdle

NextStar == \E centerNodeId \in {"a", "b", "h"} : CenterOnNode(centerNodeId)

SpecStar == InitStar /\ [][NextStar]_vars

\* the positions p and q denote the same point: the same centre and radius,
\* and angles that differ by a whole number of turns
SamePoint(p, q) ==
    /\ p.x = q.x /\ p.y = q.y /\ p.r = q.r
    /\ (p.r = 0 \/ (p.num * q.den - q.num * p.den) % (p.den * q.den) = 0)

\* C25: centerOnNode never places two distinct nodes at the same position:
\* the nodes discovered in one BFS level receive pairwise different angles
\* modulo a full turn, however many they are
C25_CentredNodesApart ==
    call.op = "centerOnNode" =>
        \A u \in DOMAIN result.positions : \A v \in DOMAIN result.positions \ {u} :
            ~SamePoint(result.positions[u], result.positions[v])

----------------------------------------------------------------------------
(* NodeComponent: the box a node view is drawn in, against visibleNodes *)

NODE_WIDTH == 120

NODE_HEIGHT == 80

\* a <= b for fractions with positive denominators
AtMost(a, b) == a.num * b.den <= b.num * a.den

\* left: x - NODE_WIDTH / 2, top: y - NODE_HEIGHT / 2 with x, y the transformed
\* position, a view of NODE_WIDTH by NODE_HEIGHT, scaled by zoom about its centre
DrawnBox(node, p, z) ==
    LET at    == worldToScreen([x |-> Whole(node.position.x), y |-> Whole(node.position.y)], p, z)
        halfW == Times(Fraction(NODE_WIDTH * Unit, 2), z)
        halfH == Times(Fraction(NODE_HEIGHT * Unit, 2), z)
    IN [left   |-> Minus(at.x, halfW), right  |-> Plus(at.x, halfW),
        top    |-> Minus(at.y, halfH), bottom |-> Plus(at.y, halfH)]

\* the screen rectangle [0, SCREEN_WIDTH] x [0, SCREEN_HEIGHT]
Screen ==
    [left |-> Whole(0), right |-> Whole(ScreenWidth * Unit),
     top  |-> Whole(0), bottom |-> Whole(ScreenHeight * Unit)]

\* positions whose drawn box touches, crosses or just misses an edge of the
\* screen under one of the cameras
DrawnPositions ==
    {Pos(x * Unit, y * Unit) :
        x \in {-61, -60, ScreenWidth \div 2 + 60, ScreenWidth + 60, ScreenWidth + 61},
        y \in {-40, ScreenHeight + 40}}

DrawnNodeMaps ==
    UNION {{[i \in 1..n |-> [id |-> IdOrder[i], position |-> at[i]]] :
              at \in [1..n -> DrawnPositions]} : n \in 0..2}

InitDrawn ==
    /\ nodes \in DrawnNodeMaps
    /\ connections \in {<<>>, <<[from |-> "a", to |-> "b", type |-> "related"]>>}
    /\ call = NoCall
    /\ result = NoResult
    /\ relax = NoRelaxation
    /\ zoom = [num |-> 1, den |-> 1]
    /\ pan = [x |-> 0, y |-> 0]
    /\ visibleNodes = VisibleNodes(nodes, pan, zoom)
    /\ visibleConnections = VisibleConnections(nodes, connections, visibleNodes)
    /\ probe = NoProbe
    /\ mounted = Mounted(NoneMounted, nodes, visibleNodes, zoom)
    /\ StoreIdle

NextDrawn ==
    \/ \E p \in PanValues : SetPan(p)
    \/ \E z \in ZoomValues : SetZoom(z)

SpecDrawn == InitDrawn /\ [][NextDrawn]_vars

\* two closed rectangles have a point in common
Intersects(a, b) ==
    /\ AtMost(a.left, b.right) /\ AtMost(b.left, a.right)
    /\ AtMost(a.top, b.bottom) /\ AtMost(b.top, a.bottom)

\* C26: culling never hides a node that is drawn on screen: under every camera
\* a node whose drawn box (120 x zoom by 80 x zoom, centred on position x zoom
\* + pan) intersects the screen rectangle is in visibleNodes
C26_DrawnNodesAreVisible ==
    \A i \in 1..Len(nodes) :
        Intersects(DrawnBox(nodes[i], pan, zoom), Screen) => nodes[i].id \in visibleNodes

\* a node under zoom 2 whose view only touches the right edge of the screen,
\* its own position being off screen, is kept
C26_Witness ==
    /\ zoom = [num |-> 2, den |-> 1]
    /\ \E i \in 1..Len(nodes) :
        /\ Intersects(DrawnBox(nodes[i], pan, zoom), Screen)
        /\ DrawnBox(nodes[i], pan, zoom).left = Screen.right
        /\ nodes[i].id \in visibleNodes

----------------------------------------------------------------------------
(* mindMapStore: the editing actions, commitChanges and undoLastChange, with *)
(* VersionControlService.commitChanges, calculateChanges, getCommitHistory   *)

MaxUuids == 1

MaxCommits == 2

MaxCalls == 3

HistoryLimit == 50

\* uuidv4(): the k-th identifier issued, different from every other
Uuid(k) == "u" \o ToString(k)

\* generateCommitId(): the identifier of the k-th commit
generateCommitId(k) == "commit_" \o ToString(k)

CurrentMap == [nodes |-> nodes, connections |-> connections]

ConnectionIdsOf(conns) == {conns[i].id : i \in 1..Len(conns)}

\* {...object, ...updates}
Spread(object, updates) ==
    [key \in DOMAIN object \cup DOMAIN updates |->
        IF key \in DOMAIN updates THEN updates[key] ELSE object[key]]

\* one more call that edits the map (or undoes the edits)
Called == [history EXCEPT !.calls = @ + 1]

\* actions.addNode(node): newNode = {...node, id: uuidv4()}
StoreAddNode(node) ==
    /\ history.calls < MaxCalls
    /\ history.uuids < MaxUuids
    /\ nodes' = IF loaded
                THEN Append(nodes, Spread(node, [id |-> Uuid(history.uuids + 1)]))
                ELSE nodes
    /\ history' = IF loaded THEN [Called EXCEPT !.uuids = @ + 1] ELSE Called
    /\ Render(nodes', connections, pan, zoom)
    /\ UNCHANGED <<connections, call, result, relax, zoom, pan, probe, loaded, selectedNode,
                   gesture>>

\* actions.updateNode(nodeId, updates)
StoreUpdateNode(nodeId, updates) ==
    /\ history.calls < MaxCalls
    /\ nodes' = IF loaded /\ nodeId \in NodeIdsOf(nodes)
                THEN [i \in 1..Len(nodes) |->
                        IF nodes[i].id = nodeId THEN Spread(nodes[i], updates) ELSE nodes[i]]
                ELSE nodes
    /\ history' = Called
    /\ Render(nodes', connections, pan, zoom)
    /\ UNCHANGED <<connections, call, result, relax, zoom, pan, probe, loaded, selectedNode,
                   gesture>>

\* the filter as it would be with the connections left as they are
WithoutNodeKept(conns, nodeId) == conns

\* connections.filter((c) => c.from !== nodeId && c.to !== nodeId)
WithoutNode(conns, nodeId) ==
    SelectSeq(conns, LAMBDA c : c.from # nodeId /\ c.to # nodeId)

\* actions.deleteNode(nodeId)
StoreDeleteNode(nodeId) ==
    /\ history.calls < MaxCalls
    /\ nodes' = IF loaded THEN SelectSeq(nodes, LAMBDA n : n.id # nodeId) ELSE nodes
    /\ connections' = IF loaded THEN WithoutNode(connections, nodeId) ELSE connections
    /\ history' = Called
    /\ Render(nodes', connections', pan, zoom)
    /\ UNCHANGED <<call, result, relax, zoom, pan, probe, loaded, selectedNode, gesture>>

\* actions.addConnection(from, to)
StoreAddConnection(from, to) ==
    /\ history.calls < MaxCalls
    /\ history.uuids < MaxUuids
    /\ connections' =
          IF loaded
          THEN Append(connections, [id |-> Uuid(history.uuids + 1), from |-> from, to |-> to,
                                    type |-> "related"])
          ELSE connections
    /\ history' = IF loaded THEN [Called EXCEPT !.uuids = @ + 1] ELSE Called
    /\ Render(nodes, connections', pan, zoom)
    /\ UNCHANGED <<nodes, call, result, relax, zoom, pan, probe, loaded, selectedNode, gesture>>

\* actions.deleteConnection(connectionId)
StoreDeleteConnection(connectionId) ==
    /\ history.calls < MaxCalls
    /\ connections' = IF loaded THEN SelectSeq(connections, LAMBDA c : c.id # connectionId)
                      ELSE connections
    /\ history' = Called
    /\ Render(nodes, connections', pan, zoom)
    /\ UNCHANGED <<nodes, call, result, relax, zoom, pan, probe, loaded, selectedNode, gesture>>

\* the comparison as it would be if no node ever counted as modified
hasNodeChangedNever(node1, node2) == FALSE

\* hasNodeChanged: JSON.stringify(node1) !== JSON.stringify(node2)
hasNodeChanged(node1, node2) == Json(node1) # Json(node2)

\* calculateChanges(previousMap, currentMap): nodes by key, connections by id;
\* connections.modified is never filled
calculateChanges(previousMap, currentMap) ==
    LET prevNodes == previousMap.nodes
        currNodes == currentMap.nodes
        prevConnections == ConnectionIdsOf(previousMap.connections)
        currConnections == ConnectionIdsOf(currentMap.connections)
    IN [nodes |->
          [added    |-> SelectSeq(currNodes, LAMBDA n : n.id \notin NodeIdsOf(prevNodes)),
           modified |-> SelectSeq(currNodes,
                          LAMBDA n : /\ n.id \in NodeIdsOf(prevNodes)
                                     /\ hasNodeChanged(NodeOf(prevNodes, n.id), n)),
           deleted  |-> SelectSeq(IdList(prevNodes),
                          LAMBDA nodeId : nodeId \notin NodeIdsOf(currNodes))],
        connections |->
          [added    |-> SelectSeq(currentMap.connections,
                          LAMBDA c : c.id \notin prevConnections),
           modified |-> <<>>,
           deleted  |-> SelectSeq([i \in 1..Len(previousMap.connections) |->
                                      previousMap.connections[i].id],
                          LAMBDA id : id \notin currConnections)]]

\* the six lists are all empty: 'No changes to commit' is thrown
NoChanges(changes) ==
    /\ Len(changes.nodes.added) = 0
    /\ Len(changes.nodes.modified) = 0
    /\ Len(changes.nodes.deleted) = 0
    /\ Len(changes.connections.added) = 0
    /\ Len(changes.connections.modified) = 0
    /\ Len(changes.connections.deleted) = 0

\* getCommitHistory(limit): from the head along parentCommitId, newest first
RECURSIVE HistoryFrom(_, _, _)
HistoryFrom(commits, currentCommitId, limit) ==
    IF \/ currentCommitId = "" \/ currentCommitId = Undefined \/ limit = 0
       \/ \A i \in 1..Len(commits) : commits[i].id # currentCommitId
    THEN <<>>
    ELSE LET commit == commits[CHOOSE i \in 1..Len(commits) : commits[i].id = currentCommitId]
         IN <<commit>> \o HistoryFrom(commits, commit.parentCommitId, limit - 1)

getCommitHistory(commits, head) == HistoryFrom(commits, head, HistoryLimit)

\* VersionControlService.commitChanges on the branch 'main': the commit, by
\* its id, its parent and its changes (message, author and timestamp left out)
NewCommit(h, changes) ==
    [id |-> generateCommitId(Len(h.commits) + 1),
     parentCommitId |-> IF h.head = "" THEN Undefined ELSE h.head,
     branch |-> "main",
     changed |-> [nodes |-> Len(changes.nodes.added) + Len(changes.nodes.modified)
                              + Len(changes.nodes.deleted),
                  connections |-> Len(changes.connections.added)
                                    + Len(changes.connections.deleted)]]

\* actions.commitChanges(message, author): null with no map loaded and when
\* the service throws; else the commit, lastCommittedMap a deep copy of
\* currentMap and commitHistory read again from the service
StoreCommitChanges ==
    LET changes == calculateChanges(history.lastCommittedMap, CurrentMap)
        commit  == NewCommit(history, changes)
    IN /\ (loaded /\ ~NoChanges(changes)) => Len(history.commits) < MaxCommits
       /\ history' =
            IF ~loaded \/ NoChanges(changes)
            THEN [history EXCEPT !.returned = "null"]
            ELSE [history EXCEPT
                    !.commits = Append(@, commit),
                    !.head = commit.id,
                    !.lastCommittedMap = DeepCopy(CurrentMap),
                    !.commitHistory = getCommitHistory(Append(history.commits, commit),
                                                       commit.id),
                    !.returned = commit.id]
       /\ UNCHANGED <<nodes, connections, call, result, relax, zoom, pan, visibleNodes,
                      visibleConnections, probe, mounted, loaded, selectedNode, gesture>>

\* actions.undoLastChange(): currentMap becomes a deep copy of lastCommittedMap,
\* unless commitHistory is empty or there is no lastCommittedMap
StoreUndoLastChange ==
    /\ history.calls < MaxCalls
    /\ nodes' = IF Len(history.commitHistory) = 0 \/ ~loaded THEN nodes
                ELSE DeepCopy(history.lastCommittedMap).nodes
    /\ connections' = IF Len(history.commitHistory) = 0 \/ ~loaded THEN connections
                      ELSE DeepCopy(history.lastCommittedMap).connections
    /\ history' = Called
    /\ Render(nodes', connections', pan, zoom)
    /\ UNCHANGED <<call, result, relax, zoom, pan, probe, loaded, selectedNode, gesture>>

\* applyLayout and centerOnNode as calls of an editing session
SessionApplyLayout(algorithm, options) ==
    /\ history.calls < MaxCalls
    /\ ApplyLayoutUpdate(algorithm, options)
    /\ history' = Called
    /\ UNCHANGED <<loaded, selectedNode, gesture>>

SessionCenterOnNode(nodeId) ==
    /\ history.calls < MaxCalls
    /\ CenterOnNodeUpdate(nodeId)
    /\ history' = Called
    /\ UNCHANGED <<loaded, selectedNode, gesture>>

\* hasUncommittedChanges()
hasUncommittedChanges ==
    /\ loaded
    /\ Stringify(CurrentMap) # Stringify(history.lastCommittedMap)

\* the maps loaded: one or two nodes, the two joined by a connection or not
SessionNodeMaps == {Titled(ns) : ns \in {m \in NodeMaps : Len(m) \in 1..2}}

SessionConnections(ns) ==
    {<<>>} \cup IF Len(ns) < 2 THEN {}
                ELSE {<<[id |-> "k1", from |-> "a", to |-> "b", type |-> "dependency"]>>}

\* no map loaded, or a map just loaded by loadMap
InitSession ==
    /\ loaded \in BOOLEAN
    /\ nodes \in IF loaded THEN SessionNodeMaps ELSE {<<>>}
    /\ connections \in IF loaded THEN SessionConnections(nodes) ELSE {<<>>}
    /\ call = NoCall
    /\ result = NoResult
    /\ relax = NoRelaxation
    /\ zoom = [num |-> 1, den |-> 1]
    /\ pan = [x |-> 0, y |-> 0]
    /\ visibleNodes = VisibleNodes(nodes, pan, zoom)
    /\ visibleConnections = VisibleConnections(nodes, connections, visibleNodes)
    /\ probe = NoProbe
    /\ mounted = NoneMounted
    /\ selectedNode = Undefined
    /\ history = IF loaded THEN loadMap(CurrentMap) ELSE NoHistory
    /\ gesture = NoGesture(pan, selectedNode)

\* the calls of a session; addConnection is called with ids of existing nodes
NextSession ==
    \/ StoreAddNode([title |-> "idea", position |-> Origin])
    \/ \E updates \in {[title |-> "plan"], [color |-> Undefined]} :
          StoreUpdateNode("a", updates)
    \/ \E nodeId \in {"a", "b"} : StoreDeleteNode(nodeId)
    \/ \E from \in NodeIdsOf(nodes), to \in NodeIdsOf(nodes) \cap {"a"} :
          StoreAddConnection(from, to)
    \/ \E connectionId \in ConnectionIdsOf(connections) : StoreDeleteConnection(connectionId)
    \/ SessionApplyLayout("grid", [algorithm |-> "grid"])
    \/ SessionCenterOnNode("a")
    \/ StoreCommitChanges
    \/ StoreUndoLastChange

SpecSession == InitSession /\ [][NextSession]_vars

\* C28: referential integrity of the map: after any sequence of addNode,
\* updateNode, deleteNode, addConnection with ids of existing nodes,
\* deleteConnection, applyLayout, centerOnNode, commitChanges and
\* undoLastChange on a loaded map, the `from` and the `to` of every connection
\* are ids of nodes of currentMap
C28_ConnectionsJoinNodes ==
    \A i \in 1..Len(connections) :
        /\ connections[i].from \in NodeIdsOf(nodes)
        /\ connections[i].to \in NodeIdsOf(nodes)

\* node b of the loaded map a -> b has been deleted, and the connection that
\* joined it to a is gone with it
C28_Witness ==
    /\ loaded
    /\ "a" \in NodeIdsOf(nodes)
    /\ "b" \notin NodeIdsOf(nodes)
    /\ "b" \in NodeIdsOf(history.lastCommittedMap.nodes)
    /\ Len(history.lastCommittedMap.connections) > 0
    /\ Len(connections) = 0

\* C29: commitChanges returns a commit exactly when hasUncommittedChanges()
\* was true; when it returns null, lastCommittedMap, commitHistory and the
\* head of the branch are unchanged; after a commit hasUncommittedChanges()
\* is false and the parent of the new commit is the previous head
C29_CommitIffUncommittedChanges ==
    [][StoreCommitChanges =>
         /\ (history'.returned # "null") <=> hasUncommittedChanges
         /\ history'.returned = "null" =>
               /\ history'.lastCommittedMap = history.lastCommittedMap
               /\ history'.commitHistory = history.commitHistory
               /\ history'.head = history.head
         /\ history'.returned # "null" =>
               /\ ~hasUncommittedChanges'
               /\ history'.head = history'.returned
               /\ history'.commitHistory[1].id = history'.returned
               /\ history'.commitHistory[1].parentCommitId =
                     (IF history.head = "" THEN Undefined ELSE history.head)
               /\ Len(history'.commitHistory) = Len(history.commitHistory) + 1]_vars

\* a second commit has been made, its parent being the first
C29_Witness ==
    /\ Len(history.commitHistory) = 2
    /\ history.returned = history.head
    /\ history.commitHistory[1].parentCommitId = history.commitHistory[2].id
    /\ ~hasUncommittedChanges

----------------------------------------------------------------------------
(* NodeComponent: dragging a node.  The pan responder is created once per     *)
(* mounted view (useRef), so its release handler reads the zoom of the view's *)
(* first render and the ref lastOffset, which is set from node.position when  *)
(* the view is mounted and by the releases of the view's own drags.           *)

\* gestureState.dx / zoom for a zoom of zoom.num / zoom.den (exact for the
\* displacements used)
OverZoom(d, z) == (d * z.den) \div z.num

\* onPanResponderRelease with gestureState (dx, dy) on the view of node id:
\* newX = lastOffset.current.x + dx / zoom, lastOffset.current = {newX, newY},
\* onMove(node.id, {x: newX, y: newY}) = actions.updateNode(nodeId, {position})
DragRelease(id, dx, dy) ==
    /\ history.calls < MaxCalls
    /\ mounted.recorded
    /\ id \in DOMAIN mounted.views
    /\ LET view == mounted.views[id]
           newX == view.lastOffset.x + OverZoom(dx, view.zoom)
           newY == view.lastOffset.y + OverZoom(dy, view.zoom)
           released == [mounted EXCEPT !.views[id].lastOffset = [x |-> newX, y |-> newY]]
       IN /\ nodes' = IF loaded /\ id \in NodeIdsOf(nodes)
                      THEN [i \in 1..Len(nodes) |->
                              IF nodes[i].id = id
                              THEN Spread(nodes[i], [position |-> Pos(newX, newY)])
                              ELSE nodes[i]]
                      ELSE nodes
          /\ visibleNodes' = VisibleNodes(nodes', pan, zoom)
          /\ visibleConnections' = VisibleConnections(nodes', connections, visibleNodes')
          /\ mounted' = Mounted(released, nodes', visibleNodes', zoom)
    /\ history' = Called
    /\ UNCHANGED <<connections, call, result, relax, zoom, pan, probe, loaded, selectedNode,
                   gesture>>

\* the screen displacements of a drag
DragDisplacements == {[dx |-> 20 * Unit, dy |-> 0], [dx |-> -40 * Unit, dy |-> 20 * Unit]}

\* the map a -> b just loaded and drawn: both node views are mounted
InitDrag ==
    /\ nodes = [i \in 1..2 |-> [id |-> IdOrder[i], position |-> Pos(i * 50 * Unit, 0)]]
    /\ connections = <<[id |-> "k1", from |-> "a", to |-> "b", type |-> "related"]>>
    /\ call = NoCall
    /\ result = NoResult
    /\ relax = NoRelaxation
    /\ zoom = [num |-> 1, den |-> 1]
    /\ pan = [x |-> 0, y |-> 0]
    /\ visibleNodes = VisibleNodes(nodes, pan, zoom)
    /\ visibleConnections = VisibleConnections(nodes, connections, visibleNodes)
    /\ probe = NoProbe
    /\ mounted = Mounted(NoneMountedYet, nodes, visibleNodes, zoom)
    /\ loaded = TRUE
    /\ selectedNode = Undefined
    /\ history = loadMap(CurrentMap)
    /\ gesture = NoGesture(pan, selectedNode)

NextDrag ==
    \/ \E id \in {"a", "b"}, d \in DragDisplacements : DragRelease(id, d.dx, d.dy)
    \/ SessionApplyLayout("grid", [algorithm |-> "grid"])
    \/ SessionCenterOnNode("a")
    \/ StoreCommitChanges
    \/ StoreUndoLastChange
    \/ \E z \in ZoomValues : SetZoom(z)

SpecDrag == InitDrag /\ [][NextDrag]_vars

\* C27: after any interleaving of drags with applyLayout, centerOnNode and
\* undoLastChange, the release of a drag of screen displacement (dx, dy) at
\* zoom z sets the node's stored position to the position it had in the store
\* immediately before the drag plus (dx / z, dy / z)
C27_DragMovesFromStoredPosition ==
    [][\A id \in {"a", "b"} : \A d \in DragDisplacements :
          DragRelease(id, d.dx, d.dy) =>
             /\ NodeOf(nodes', id).position.x =
                   NodeOf(nodes, id).position.x + OverZoom(d.dx, zoom)
             /\ NodeOf(nodes', id).position.y =
                   NodeOf(nodes, id).position.y + OverZoom(d.dy, zoom)]_vars

----------------------------------------------------------------------------
(* Canvas.tsx: panning the canvas.  The pan responder is created once         *)
(* (useRef), so its handlers read the pan and the selectedNode of the first   *)
(* render of the canvas; lastPanRef is a ref shared by all of them.           *)

MaxMoves == 3

\* onPanResponderGrant at the start of a touch, where gestureState.dx and dy
\* are 0: lastPanRef.current = {x: gestureState.dx, y: gestureState.dy}
PanGrant ==
    /\ ~gesture.active
    /\ gesture.moves < MaxMoves
    /\ gesture' = [gesture EXCEPT !.active = TRUE,
                                  !.lastPanRef = [x |-> 0, y |-> 0],
                                  !.start = pan,
                                  !.displacement = [x |-> 0, y |-> 0]]
    /\ UNCHANGED <<nodes, connections, call, result, relax, zoom, pan, visibleNodes,
                   visibleConnections, probe, mounted, loaded, selectedNode, history>>

\* onPanResponderMove with gestureState (dx, dy): if (!selectedNode)
\* actions.setPan({x: pan.x + dx - lastPanRef.current.x, ...}) and
\* lastPanRef.current = {x: dx, y: dy}; pan and selectedNode are the closure's
PanMove(dx, dy) ==
    /\ gesture.active
    /\ gesture.moves < MaxMoves
    /\ LET panning == gesture.closure.selectedNode = Undefined
           newPan  == [x |-> gesture.closure.pan.x + dx - gesture.lastPanRef.x,
                       y |-> gesture.closure.pan.y + dy - gesture.lastPanRef.y]
       IN /\ pan' = IF panning THEN newPan ELSE pan
          /\ gesture' = [gesture EXCEPT
                            !.lastPanRef = IF panning THEN [x |-> dx, y |-> dy] ELSE @,
                            !.displacement = [x |-> dx, y |-> dy],
                            !.moves = @ + 1]
    /\ Render(nodes, connections, pan', zoom)
    /\ UNCHANGED <<nodes, connections, call, result, relax, zoom, probe, loaded, selectedNode,
                   history>>

\* onPanResponderRelease: setIsPanning(false)
PanRelease ==
    /\ gesture.active
    /\ gesture' = [gesture EXCEPT !.active = FALSE,
                                  !.total = [x |-> @.x + gesture.displacement.x,
                                             y |-> @.y + gesture.displacement.y]]
    /\ UNCHANGED <<nodes, connections, call, result, relax, zoom, pan, visibleNodes,
                   visibleConnections, probe, mounted, loaded, selectedNode, history>>

\* the cumulative displacements gestureState reports
PanDisplacements == {[dx |-> x * Unit, dy |-> y * Unit] : x \in {10, 20, -30}, y \in {0, 10}}

\* a loaded map on a canvas just mounted, no node selected
InitPan ==
    /\ nodes \in {ns \in StoreNodeMaps : Len(ns) <= 1}
    /\ connections = <<>>
    /\ call = NoCall
    /\ result = NoResult
    /\ relax = NoRelaxation
    /\ zoom = [num |-> 1, den |-> 1]
    /\ pan = [x |-> 0, y |-> 0]
    /\ visibleNodes = VisibleNodes(nodes, pan, zoom)
    /\ visibleConnections = VisibleConnections(nodes, connections, visibleNodes)
    /\ probe = NoProbe
    /\ mounted = Mounted(NoneMounted, nodes, visibleNodes, zoom)
    /\ StoreIdle

NextPan ==
    \/ PanGrant
    \/ \E d \in PanDisplacements : PanMove(d.dx, d.dy)
    \/ PanRelease

SpecPan == InitPan /\ [][NextPan]_vars

\* C30: canvas panning accumulates: during a gesture with no node selected the
\* stored pan is the pan at the start of the gesture plus the displacement
\* (dx, dy) of the last move event, and between gestures it is the initial pan
\* plus the sum of the displacements of all gestures
C30_PanAccumulates ==
    /\ gesture.active =>
          /\ pan.x = gesture.start.x + gesture.displacement.x
          /\ pan.y = gesture.start.y + gesture.displacement.y
    /\ ~gesture.active =>
          /\ pan.x = gesture.initial.x + gesture.total.x
          /\ pan.y = gesture.initial.y + gesture.total.y
====
